---- MODULE Spec2Model ----
(***************************************************************************)
(* A model of the block pipeline of mc_renderer: the block palette, the    *)
(* mesh cache filled by init_new_blocks, the texture-loading state         *)
(* machine, block-state resolution (get_block_model), model merging        *)
(* (process_model) and texture-variable resolution                         *)
(* (resolve_textures_completely).                                          *)
(*                                                                         *)
(* Strings that the code takes apart (block-state strings) are sequences   *)
(* of tokens: the punctuation characters "[", "]", "," and "=" are tokens  *)
(* of their own, every other token is a run of characters that holds no    *)
(* punctuation.  Indices are 0-based as in the code: index i of a Vec is   *)
(* element i + 1 of the sequence that models it.                           *)
(***************************************************************************)
EXTENDS Integers, Sequences, FiniteSets, TLC

VARIABLES
  blocks,      \* BlockPalette.blocks : Vec<String>
  map,         \* BlockPalette.map : HashMap<String, usize>
  calls,       \* history of get_or_add calls: <<[name, idx], ...>>
  \* the application: texture loading, then the mesh cache
  appState,    \* State<AppLoadState>
  nextState,   \* NextState<AppLoadState>: "None" or the state asked for
  schedule,    \* the schedule of the frame that runs next
  entered,     \* whether OnEnter of the initial state has run
  folderLoad,  \* the asset server's load of McTexturesFolder
  events,      \* AssetEvent<LoadedFolder> not yet read by check_textures
  atlas,       \* the TextureAtlas resource, absent until inserted
  atlasBuilds, \* number of create_texture_atlas executions
  entities,    \* the Block entities, in spawn order
  resMeshes,   \* BlockResources.meshes : palette index -> mesh handle
  meshAssets,  \* number of meshes added to Assets<Mesh>
  meshCalls,   \* per palette index, the create_mesh_for_block calls so far
  appPanic,    \* "none", or why a system panicked
  \* one call of get_block_model
  rsBlock,     \* the block-state string
  rsStates,    \* what load_blockstates returns for its base name
  rsResult,    \* "pending", or the value returned
  \* one call of process_model
  pmRefs,      \* the ModelProperties still to process
  pmChain,     \* load_block_model_recursive's result, requested model first
  pmPos,       \* models of the reversed chain merged so far
  pmTextures,  \* the local textures
  pmElements,  \* the local elements
  pmProcessed, \* processed_models
  pmPc,        \* where process_model stands
  \* one call of resolve_textures_completely
  txTable,     \* the argument textures
  txTodo,      \* names the for loop has not visited yet
  txName,      \* the name the for loop is at
  txCur,       \* the local texture
  txTarget,    \* the local target
  txResolved,  \* resolved_textures
  txPc,        \* where resolve_textures_completely stands
  \* one call of get_tint_for_block
  tnName,      \* block_name
  tnProps,     \* block_props
  tnIdx,       \* tint_idx
  tnResult,    \* not there yet, or the Color returned
  \* create_texture_atlas from its transparency scan on, then get_tex_details
  atImage,     \* alpha of every pixel of the packed atlas image
  atSize,      \* layout.size
  atTiles,     \* the packed textures in layout order: asset path and rectangle
  atFlags,     \* the local has_transparency
  atAtlas,     \* the TextureAtlas returned, absent until then
  atDetails,   \* the last get_tex_details call: its argument and outcome
  atPc,        \* where create_texture_atlas stands
  \* one call of create_mesh_for_block
  msModels,    \* block_models.0[block]: the processed models and the tint
  msM,         \* models of the outer loop done
  msE,         \* elements of the current model done
  msMesh,      \* the local positions, normals, uvs, indices, has_transparency
  msResult,    \* not there yet, or the value returned
  msPc,        \* where create_mesh_for_block stands
  \* one call of get_block_models_for
  gmGrid,      \* the schematic: its size and the block of every voxel
  gmPack,      \* the asset pack: blockstates and loadable models
  gmPos,       \* voxels scanned so far
  gmModels,    \* the local models
  gmLog,       \* the voxels whose block was handed to get_block_model, in order
  gmResult,    \* not there yet, or the Result returned
  \* one run of setup (main.rs)
  wdGrid,      \* the world: its size and the block of every voxel
  wdPos,       \* voxels handled so far
  wdMeshMap,   \* the local mesh_map
  wdSpawned,   \* the PbrBundles spawned, in order
  wdPc,        \* where setup stands
  \* one call of create_mesh_for_block of mesh.rs
  emModels,    \* block_models.0[block].0: the processed models
  emM,         \* models of the outer loop done
  emE,         \* elements of the current model done
  emMeshes,    \* the local meshes
  emPc,        \* where create_mesh_for_block stands
  \* create_texture_atlas up to the packing, then get_tex_details
  fdFolder,    \* folder.handles
  fdI,         \* handles the current loop has visited
  fdAnimated,  \* animated_textures
  fdMapping,   \* mapping
  fdAdded,     \* the textures added to texture_atlas_builder, in order
  fdAtlas,     \* the TextureAtlas returned, absent until then
  fdDetails,   \* the last get_tex_details call: its argument and outcome
  fdPc,        \* where create_texture_atlas stands
  \* the materials of the blocks
  mtAssets,    \* Assets<StandardMaterial>, in the order they were added
  mtMats,      \* BlockResources.mats
  mtBlocks     \* the blocks init_new_blocks has given a material, in order

paletteVars == <<blocks, map, calls>>

resolveVars == <<rsBlock, rsStates, rsResult>>

pmVars == <<pmRefs, pmChain, pmPos, pmTextures, pmElements, pmProcessed, pmPc>>

texVars == <<txTable, txTodo, txName, txCur, txTarget, txResolved, txPc>>

appVars == <<appState, nextState, schedule, entered, folderLoad, events, atlas,
             atlasBuilds, entities, resMeshes, meshAssets, meshCalls, appPanic>>

tintVars == <<tnName, tnProps, tnIdx, tnResult>>

atlasVars == <<atImage, atSize, atTiles, atFlags, atAtlas, atDetails, atPc>>

meshVars == <<msModels, msM, msE, msMesh, msResult, msPc>>

scanVars == <<gmGrid, gmPack, gmPos, gmModels, gmLog, gmResult>>

worldVars == <<wdGrid, wdPos, wdMeshMap, wdSpawned, wdPc>>

elemVars == <<emModels, emM, emE, emMeshes, emPc>>

folderVars == <<fdFolder, fdI, fdAnimated, fdMapping, fdAdded, fdAtlas, fdDetails, fdPc>>

matVars == <<mtAssets, mtMats, mtBlocks>>

vars == <<paletteVars, appVars, resolveVars, pmVars, texVars, tintVars, atlasVars,
          meshVars, scanVars, worldVars,
    elemVars, folderVars, matVars>>

notPaletteVars == <<appVars, resolveVars, pmVars, texVars, tintVars, atlasVars, meshVars,
                    scanVars, worldVars,
    elemVars, folderVars, matVars>>
notAppVars == <<paletteVars, resolveVars, pmVars, texVars, tintVars, atlasVars, meshVars,
                scanVars, worldVars,
    elemVars, folderVars, matVars>>
notResolveVars == <<paletteVars, appVars, pmVars, texVars, tintVars, atlasVars, meshVars,
                    scanVars, worldVars,
    elemVars, folderVars, matVars>>
notModelVars == <<paletteVars, appVars, resolveVars, tintVars, atlasVars, meshVars,
                  scanVars, worldVars,
    elemVars, folderVars, matVars>>
notTintVars == <<paletteVars, appVars, resolveVars, pmVars, texVars, atlasVars, meshVars,
                 scanVars, worldVars,
    elemVars, folderVars, matVars>>
notAtlasVars == <<paletteVars, appVars, resolveVars, pmVars, texVars, tintVars, meshVars,
                  scanVars, worldVars,
    elemVars, folderVars, matVars>>
notMeshVars == <<paletteVars, appVars, resolveVars, pmVars, texVars, tintVars, atlasVars,
                 scanVars, worldVars,
    elemVars, folderVars, matVars>>
notScanVars == <<paletteVars, appVars, resolveVars, pmVars, texVars, tintVars, atlasVars,
                 meshVars, worldVars,
    elemVars, folderVars, matVars>>
notElemVars == <<paletteVars, appVars, resolveVars, pmVars, texVars, tintVars, atlasVars,
                 meshVars, scanVars, worldVars, folderVars, matVars>>
notFolderVars == <<paletteVars, appVars, resolveVars, pmVars, texVars, tintVars, atlasVars,
                   meshVars, scanVars, worldVars, elemVars, matVars>>
notMatVars == <<paletteVars, appVars, resolveVars, pmVars, texVars, tintVars, atlasVars,
                meshVars, scanVars, worldVars, elemVars, folderVars>>
notWorldVars == <<paletteVars, appVars, resolveVars, pmVars, texVars, tintVars, atlasVars,
                  meshVars, scanVars,
    elemVars, folderVars, matVars>>

(***************************************************************************)
(* Block-state strings                                                     *)
(***************************************************************************)
Air == <<"minecraft:air">>
Stone == <<"minecraft:stone">>
Wire == <<"minecraft:redstone_wire">>
Wire1 == <<"minecraft:redstone_wire", "[", "power", "=", "1", "]">>
Wire5 == <<"minecraft:redstone_wire", "[", "power", "=", "5", "]">>

\* The names handed to BlockPalette::get_or_add.
PaletteNames == {Air, Stone, Wire1, Wire5}

\* Bound on the number of get_or_add calls of one run.
MaxCalls == 4

(***************************************************************************)
(* BlockPalette                                                            *)
(***************************************************************************)

\* impl Default for BlockPalette
PaletteDefault == [blocks |-> <<Air>>, map |-> (Air :> 0)]

\* get_or_add with the index taken after the push (off by one).
get_or_add_late_idx(b, m, name) ==
  IF name \in DOMAIN m
    THEN [blocks |-> b, map |-> m, idx |-> m[name]]
    ELSE LET idx == Len(b) + 1
         IN  [blocks |-> Append(b, name), map |-> m @@ (name :> idx), idx |-> idx]

\* get_or_add that pushes the name again when it is already known.
get_or_add_repush(b, m, name) ==
  IF name \in DOMAIN m
    THEN [blocks |-> Append(b, name), map |-> m, idx |-> m[name]]
    ELSE LET idx == Len(b)
         IN  [blocks |-> Append(b, name), map |-> m @@ (name :> idx), idx |-> idx]

\* get_or_add that never looks the name up.
get_or_add_no_lookup(b, m, name) ==
  LET idx == Len(b)
  IN  [blocks |-> Append(b, name),
       map |-> [n \in DOMAIN m \cup {name} |-> IF n = name THEN idx ELSE m[n]],
       idx |-> idx]

\* BlockPalette::get_or_add: the palette after the call and the index returned.
get_or_add(b, m, name) ==
  IF name \in DOMAIN m
    THEN [blocks |-> b, map |-> m, idx |-> m[name]]
    ELSE LET idx == Len(b)
         IN  [blocks |-> Append(b, name), map |-> m @@ (name :> idx), idx |-> idx]

PaletteInit ==
  /\ blocks = PaletteDefault.blocks
  /\ map = PaletteDefault.map
  /\ calls = <<>>

\* One call palette.get_or_add(name).
GetOrAdd(name) ==
  /\ Len(calls) < MaxCalls
  /\ LET r == get_or_add(blocks, map, name)
     IN  /\ blocks' = r.blocks
         /\ map' = r.map
         /\ calls' = Append(calls, [name |-> name, idx |-> r.idx])
  /\ UNCHANGED notPaletteVars

PaletteNext == \E name \in PaletteNames : GetOrAdd(name)

(***************************************************************************)
(* The application: AppLoadState, check_textures, init_block_resources,    *)
(* init_new_blocks                                                         *)
(***************************************************************************)

\* Largest palette index a spawned Block carries.
MaxIdx == 2
\* Bound on the number of Block entities spawned in one run.
MaxEntities == 3
\* Bound on the asset events waiting to be read in one frame.
MaxEvents == 2

PaletteIndices == 0..MaxIdx

\* AssetEvent<LoadedFolder> values: the one check_textures waits for, and
\* the ones it skips (another event kind, or another asset id).
FolderLoadedEvent == "LoadedWithDependencies(folder)"
OtherEvents == {"Added(folder)", "LoadedWithDependencies(other)"}

\* No TextureAtlas resource has been inserted.
NoAtlas == [present |-> FALSE, build |-> 0]

\* event.is_loaded_with_dependencies(folder_handle)
is_loaded_with_dependencies(event) == event = FolderLoadedEvent

\* run_if of check_textures: in_state(AppLoadState::LoadingTextures)
check_textures_run_if(state) == state = "LoadingTextures"

\* init_new_blocks scheduled without its run condition.
init_new_blocks_run_always(state) == TRUE

\* run_if of init_new_blocks: in_state(AppLoadState::Finished)
init_new_blocks_run_if(state) == state = "Finished"

\* create_mesh_for_block as far as the cache sees it: the mesh is added to
\* Assets<Mesh>, whose fresh handle is returned.
create_mesh_for_block(st, idx) ==
  [st EXCEPT !.assets = @ + 1,
             !.calls = [@ EXCEPT ![idx] = @ + 1],
             !.handle = st.assets + 1]

\* The loop body of init_new_blocks without the lookup in res.meshes.
init_new_block_no_cache(st, i) ==
  LET e == st.ents[i]
      made == create_mesh_for_block(st, e.block)
  IN  IF ~e.added THEN st
      ELSE [made EXCEPT
              !.meshes = [k \in DOMAIN st.meshes \cup {e.block} |->
                            IF k = e.block THEN made.handle ELSE st.meshes[k]],
              !.ents = [@ EXCEPT ![i] = [@ EXCEPT !.added = FALSE, !.mesh = made.handle]]]

\* The loop body of init_new_blocks with a cache that keeps only the mesh
\* built last.
init_new_block_single_entry(st, i) ==
  LET e == st.ents[i]
      made == create_mesh_for_block(st, e.block)
  IN  IF ~e.added THEN st
      ELSE IF e.block \in DOMAIN st.meshes
        THEN [st EXCEPT !.ents = [@ EXCEPT ![i] =
                          [@ EXCEPT !.added = FALSE, !.mesh = st.meshes[e.block]]]]
        ELSE [made EXCEPT
                !.meshes = (e.block :> made.handle),
                !.ents = [@ EXCEPT ![i] =
                            [@ EXCEPT !.added = FALSE, !.mesh = made.handle]]]

\* The loop body of init_new_blocks for entity i (Added<Block> only).
init_new_block(st, i) ==
  LET e == st.ents[i]
  IN  IF ~e.added THEN st
      ELSE IF e.block \in DOMAIN st.meshes
        THEN [st EXCEPT !.ents = [@ EXCEPT ![i] =
                          [@ EXCEPT !.added = FALSE, !.mesh = st.meshes[e.block]]]]
        ELSE LET made == create_mesh_for_block(st, e.block)
             IN  [made EXCEPT
                    !.meshes = st.meshes @@ (e.block :> made.handle),
                    !.ents = [@ EXCEPT ![i] =
                                [@ EXCEPT !.added = FALSE, !.mesh = made.handle]]]

RECURSIVE init_new_blocks_from(_, _)
\* init_new_blocks: the entities from i on, in query order.
init_new_blocks_from(st, i) ==
  IF i > Len(st.ents) THEN st
  ELSE init_new_blocks_from(init_new_block(st, i), i + 1)

RECURSIVE check_textures_from(_, _)
\* check_textures: the loop over events.read(), from event i on.
check_textures_from(st, i) ==
  IF i > Len(st.events) THEN st
  ELSE IF is_loaded_with_dependencies(st.events[i])
    THEN check_textures_from(
           [st EXCEPT !.builds = @ + 1,
                      !.atlas = [present |-> TRUE, build |-> st.builds + 1],
                      !.next = "Finished"], i + 1)
    ELSE check_textures_from(st, i + 1)

AppInit ==
  /\ appState = "LoadingTextures"
  /\ nextState = "None"
  /\ schedule = "StateTransition"
  /\ entered = FALSE
  /\ folderLoad = "idle"
  /\ events = <<>>
  /\ atlas = NoAtlas
  /\ atlasBuilds = 0
  /\ entities = <<>>
  /\ resMeshes = <<>>
  /\ meshAssets = 0
  /\ meshCalls = [i \in PaletteIndices |-> 0]
  /\ appPanic = "none"

\* The StateTransition schedule of a frame: OnEnter of the initial state on
\* the first frame (load_textures), then the pending transition with
\* OnEnter(Finished) (init_block_resources).
StateTransition ==
  /\ UNCHANGED notAppVars
  /\ appPanic = "none"
  /\ schedule = "StateTransition"
  /\ schedule' = "Update"
  /\ entered' = TRUE
  /\ folderLoad' = IF ~entered /\ appState = "LoadingTextures" THEN "loading" ELSE folderLoad
  /\ IF nextState # "None" /\ nextState # appState
       THEN /\ appState' = nextState
            /\ resMeshes' = IF nextState = "Finished" THEN <<>> ELSE resMeshes
       ELSE UNCHANGED <<appState, resMeshes>>
  /\ nextState' = "None"
  /\ UNCHANGED <<events, atlas, atlasBuilds, entities, meshAssets, meshCalls, appPanic>>

\* The Update schedule of a frame in which check_textures runs.
UpdateCheckTextures ==
  /\ UNCHANGED notAppVars
  /\ appPanic = "none"
  /\ schedule = "Update"
  /\ check_textures_run_if(appState)
  /\ LET st == check_textures_from(
                 [events |-> events, builds |-> atlasBuilds, atlas |-> atlas,
                  next |-> nextState], 1)
     IN  /\ atlasBuilds' = st.builds
         /\ atlas' = st.atlas
         /\ nextState' = st.next
  /\ events' = <<>>
  /\ schedule' = "StateTransition"
  /\ UNCHANGED <<appState, entered, folderLoad, entities, resMeshes, meshAssets,
                 meshCalls, appPanic>>

\* The Update schedule of a frame in which init_new_blocks runs.  Its
\* Res<TextureAtlas> parameter panics when the resource does not exist.
UpdateInitNewBlocks ==
  /\ UNCHANGED notAppVars
  /\ appPanic = "none"
  /\ schedule = "Update"
  /\ init_new_blocks_run_if(appState)
  /\ IF ~atlas.present
       THEN /\ appPanic' = "init_new_blocks: no TextureAtlas"
            /\ UNCHANGED <<entities, resMeshes, meshAssets, meshCalls>>
       ELSE LET st == init_new_blocks_from(
                        [ents |-> entities, meshes |-> resMeshes, assets |-> meshAssets,
                         calls |-> meshCalls, handle |-> 0], 1)
            IN  /\ entities' = st.ents
                /\ resMeshes' = st.meshes
                /\ meshAssets' = st.assets
                /\ meshCalls' = st.calls
                /\ UNCHANGED appPanic
  /\ events' = <<>>
  /\ schedule' = "StateTransition"
  /\ UNCHANGED <<appState, nextState, entered, folderLoad, atlas, atlasBuilds>>

\* The asset server finishes loading the folder that load_textures asked for.
FolderLoaded ==
  /\ UNCHANGED notAppVars
  /\ appPanic = "none"
  /\ folderLoad = "loading"
  /\ Len(events) < MaxEvents
  /\ folderLoad' = "loaded"
  /\ events' = Append(events, FolderLoadedEvent)
  /\ UNCHANGED <<appState, nextState, schedule, entered, atlas, atlasBuilds, entities,
                 resMeshes, meshAssets, meshCalls, appPanic>>

\* The asset server sends an event that is not the awaited one.
OtherAssetEvent(e) ==
  /\ UNCHANGED notAppVars
  /\ appPanic = "none"
  /\ Len(events) < MaxEvents
  /\ events' = Append(events, e)
  /\ UNCHANGED <<appState, nextState, schedule, entered, folderLoad, atlas, atlasBuilds,
                 entities, resMeshes, meshAssets, meshCalls, appPanic>>

\* A Block entity is spawned: BlockBundle::new(idx, pos).
SpawnBlock(idx) ==
  /\ UNCHANGED notAppVars
  /\ appPanic = "none"
  /\ Len(entities) < MaxEntities
  /\ entities' = Append(entities, [block |-> idx, added |-> TRUE, mesh |-> 0])
  /\ UNCHANGED <<appState, nextState, schedule, entered, folderLoad, events, atlas,
                 atlasBuilds, resMeshes, meshAssets, meshCalls, appPanic>>

AppNext ==
  \/ StateTransition
  \/ UpdateCheckTextures
  \/ UpdateInitNewBlocks
  \/ FolderLoaded
  \/ \E e \in OtherEvents : OtherAssetEvent(e)
  \/ \E idx \in PaletteIndices : SpawnBlock(idx)

(***************************************************************************)
(* Strings as token sequences: the str methods the code uses               *)
(***************************************************************************)
None == [some |-> FALSE]
Some(v) == [some |-> TRUE, value |-> v]

\* str::split_once(c): the text before and after the first c, if there is one.
split_once(str, c) ==
  IF \E i \in 1..Len(str) : str[i] = c
    THEN LET i == CHOOSE k \in 1..Len(str) :
                    str[k] = c /\ \A j \in 1..(k - 1) : str[j] # c
         IN  Some(<<SubSeq(str, 1, i - 1), SubSeq(str, i + 1, Len(str))>>)
    ELSE None

RECURSIVE trim_end_matches(_, _)
\* str::trim_end_matches(c): the text without its trailing run of c.
trim_end_matches(str, c) ==
  IF str # <<>> /\ str[Len(str)] = c
    THEN trim_end_matches(SubSeq(str, 1, Len(str) - 1), c)
    ELSE str

RECURSIVE trim_start_matches_tok(_, _)
\* str::trim_start_matches(pat) for a pattern that is one token: the text
\* without its leading run of pat.
trim_start_matches_tok(str, pat) ==
  IF str # <<>> /\ str[1] = pat THEN trim_start_matches_tok(Tail(str), pat) ELSE str

RECURSIVE split(_, _)
\* str::split(c): the pieces between the occurrences of c, in order.
split(str, c) ==
  LET cut == split_once(str, c)
  IN  IF cut.some THEN <<cut.value[1]>> \o split(cut.value[2], c) ELSE <<str>>

(***************************************************************************)
(* get_block_model                                                         *)
(***************************************************************************)

\* Bound on the number of multipart cases of one blockstates file.
MaxCases == 2

\* A result that is not there yet, an Err(..) return, a panic.
Pending == [kind |-> "Pending"]
Err(e) == [kind |-> "Err", error |-> e]
Panic(why) == [kind |-> "Panic", why |-> why]

RECURSIVE decode_pairs(_, _)
\* The for loop of decode_props over the pieces of props.split(',').
decode_pairs(pieces, res) ==
  IF pieces = <<>> THEN [kind |-> "Ok", props |-> res]
  ELSE LET kv == split_once(Head(pieces), "=")
       IN  IF ~kv.some THEN Panic("decode_props: unwrap on None")
           ELSE LET k == kv.value[1]
                    v == kv.value[2]
                IN  decode_pairs(Tail(pieces),
                      [x \in DOMAIN res \cup {k} |-> IF x = k THEN v ELSE res[x]])

RECURSIVE decode_pairs_skip(_, _)
\* The for loop of decode_props with a pair that has no '=' passed over.
decode_pairs_skip(pieces, res) ==
  IF pieces = <<>> THEN [kind |-> "Ok", props |-> res]
  ELSE LET kv == split_once(Head(pieces), "=")
       IN  IF ~kv.some THEN decode_pairs_skip(Tail(pieces), res)
           ELSE LET k == kv.value[1]
                    v == kv.value[2]
                IN  decode_pairs_skip(Tail(pieces),
                      [x \in DOMAIN res \cup {k} |-> IF x = k THEN v ELSE res[x]])

\* decode_props that passes over malformed pairs.
decode_props_skip_bad(props) ==
  IF props = <<>> THEN [kind |-> "Ok", props |-> <<>>]
  ELSE decode_pairs_skip(split(props, ","), <<>>)

\* decode_props that stops after the first pair.
decode_props_first_only(props) ==
  IF props = <<>> THEN [kind |-> "Ok", props |-> <<>>]
  ELSE decode_pairs(<<Head(split(props, ","))>>, <<>>)

\* decode_props: the property text as a map from key to value.
decode_props(props) ==
  IF props = <<>> THEN [kind |-> "Ok", props |-> <<>>]
  ELSE decode_pairs(split(props, ","), <<>>)

\* str.parse::<f32>() with a default of 1.0 for a text it rejects.
parse_f32_or_one(str) ==
  LET n == {p \in 0..15 : str = <<ToString(p)>>}
  IN  IF n = {} THEN 1 ELSE CHOOSE p \in n : TRUE

\* str.parse::<f32>().unwrap_or_default() on the values the model uses.
parse_f32_or_default(str) ==
  LET digits == ("0" :> 0) @@ ("1" :> 1) @@ ("2" :> 2) @@ ("3" :> 3) @@ ("4" :> 4)
                  @@ ("5" :> 5) @@ ("6" :> 6) @@ ("7" :> 7) @@ ("8" :> 8) @@ ("9" :> 9)
                  @@ ("10" :> 10) @@ ("11" :> 11) @@ ("12" :> 12) @@ ("13" :> 13)
                  @@ ("14" :> 14) @@ ("15" :> 15)
  IN  IF Len(str) = 1 /\ str[1] \in DOMAIN digits THEN digits[str[1]] ELSE 0

\* Colours are numerators over TintDenominator = 15 * 15 * 10, which holds
\* every value of the redstone tint curve exactly.
TintDenominator == 2250
clamp01(n) == IF n < 0 THEN 0 ELSE IF n > TintDenominator THEN TintDenominator ELSE n
White == [r |-> TintDenominator, g |-> TintDenominator, b |-> TintDenominator]

\* get_tint_for_block with f >= 0.0 in place of f > 0.0.
get_tint_for_block_ge(block_name, block_props, tint_idx) ==
  IF block_name = <<"minecraft:redstone_wire">> /\ tint_idx = 0
    THEN LET power == IF <<"power">> \in DOMAIN block_props
                        THEN parse_f32_or_default(block_props[<<"power">>])
                        ELSE 0
         IN  [r |-> 90 * power + (IF power >= 0 THEN 900 ELSE 675),
              g |-> clamp01(7 * power * power - 1125),
              b |-> clamp01(6 * power * power - 1575)]
    ELSE White

\* get_tint_for_block
get_tint_for_block(block_name, block_props, tint_idx) ==
  IF block_name = <<"minecraft:redstone_wire">> /\ tint_idx = 0
    THEN LET power == IF <<"power">> \in DOMAIN block_props
                        THEN parse_f32_or_default(block_props[<<"power">>])
                        ELSE 0
             \* f = power / 15
         IN  [r |-> 90 * power + (IF power > 0 THEN 900 ELSE 675),
              g |-> clamp01(7 * power * power - 1125),
              b |-> clamp01(6 * power * power - 1575)]
    ELSE White

\* Case::applies of the minecraft_assets crate, on the properties the code
\* hands it: every property that the predicate constrains must have one of
\* the accepted values; a property it does not constrain passes.
case_applies(case, props) ==
  \A k \in DOMAIN props : k \in DOMAIN case.when => props[k] \in case.when[k]

RECURSIVE collect_models(_, _, _, _)
\* The for loop of get_block_model over the cases, in declared order.
collect_models(cases, props, models, applied) ==
  IF cases = <<>> THEN [models |-> models, applied |-> applied]
  ELSE LET case == Head(cases)
           applies == case_applies(case, props)
       IN  collect_models(Tail(cases), props,
             IF applies THEN Append(models, case.apply[1]) ELSE models,
             Append(applied, applies))

\* get_block_model that stops at the first case that applies.
get_block_model_first_match(states, block) ==
  LET cut == split_once(block, "[")
      name == IF cut.some THEN cut.value[1] ELSE block
      text == IF cut.some THEN trim_end_matches(cut.value[2], "]") ELSE <<>>
      decoded == decode_props(text)
      hit == {i \in 1..Len(states.cases) : case_applies(states.cases[i], decoded.props)}
      first == IF hit = {} THEN 0 ELSE CHOOSE i \in hit : \A j \in hit : i <= j
  IN  IF ~states.found THEN Err("NotFound")
      ELSE IF decoded.kind = "Panic" THEN decoded
      ELSE [kind |-> "Ok",
            name |-> name,
            props |-> decoded.props,
            models |-> IF first = 0 THEN <<>> ELSE <<states.cases[first].apply[1]>>,
            applied |-> [i \in 1..Len(states.cases) |-> i \in hit],
            tint |-> IF name = <<"minecraft:redstone_wire">>
                       THEN Some(get_tint_for_block(name, decoded.props, 0))
                       ELSE None]

\* get_block_model, given what load_blockstates(name) returns.  The fields
\* name, props and applied keep the locals name and props and the local
\* applies of every case.
get_block_model(states, block) ==
  LET cut == split_once(block, "[")
      name == IF cut.some THEN cut.value[1] ELSE block
      text == IF cut.some THEN trim_end_matches(cut.value[2], "]") ELSE <<>>
      decoded == decode_props(text)
      found == collect_models(states.cases, decoded.props, <<>>, <<>>)
  IN  IF ~states.found THEN Err("NotFound")
      ELSE IF decoded.kind = "Panic" THEN decoded
      ELSE [kind |-> "Ok",
            name |-> name,
            props |-> decoded.props,
            models |-> found.models,
            applied |-> found.applied,
            tint |-> IF name = <<"minecraft:redstone_wire">>
                       THEN Some(get_tint_for_block(name, decoded.props, 0))
                       ELSE None]

\* The inputs: block-state keys (a base name and property values) written
\* out as block-state strings, and blockstates files.
PropOrder == <<"north", "power">>
PropValues == [north |-> {"up"}, power |-> {"1", "5"}]
BlockStateKeys ==
  {[name |-> n, props |-> pr] :
     n \in {"minecraft:redstone_wire", "minecraft:stone"},
     pr \in UNION {[S -> {"up", "1", "5"}] : S \in SUBSET {"north", "power"}}}
WellTypedKeys == {k \in BlockStateKeys : \A p \in DOMAIN k.props : k.props[p] \in PropValues[p]}

RECURSIVE render_props(_, _, _)
render_props(props, i, first) ==
  IF i > Len(PropOrder) THEN <<>>
  ELSE IF PropOrder[i] \in DOMAIN props
    THEN (IF first THEN <<>> ELSE <<",">>)
           \o <<PropOrder[i], "=", props[PropOrder[i]]>>
           \o render_props(props, i + 1, FALSE)
    ELSE render_props(props, i + 1, first)

\* The block-state string of a key: name[k1=v1,k2=v2].
BlockStateString(key) ==
  IF DOMAIN key.props = {} THEN <<key.name>>
  ELSE <<key.name, "[">> \o render_props(key.props, 1, TRUE) \o <<"]">>

\* The key a block-state string of the model was written from.
KeyOf(block) == CHOOSE k \in WellTypedKeys : BlockStateString(k) = block

DotModel == [model |-> "block/redstone_dust_dot", x |-> 0, y |-> 0, uv_lock |-> FALSE]
SideModel == [model |-> "block/redstone_dust_side0", x |-> 0, y |-> 90, uv_lock |-> FALSE]
SideAltModel == [model |-> "block/redstone_dust_side_alt0", x |-> 0, y |-> 90, uv_lock |-> FALSE]

Whens ==
  {[k \in S |-> IF k = <<"power">> THEN pw ELSE nt] :
     S \in SUBSET {<<"power">>, <<"north">>},
     pw \in {{<<"0">>, <<"1">>, <<"2">>}, {<<"5">>}},
     nt \in {{<<"up">>}, {<<"none">>, <<"side">>}}}
Cases == [when : Whens, apply : {<<DotModel>>, <<SideModel, SideAltModel>>}]

RECURSIVE SeqsUpTo(_, _)
\* The sequences over S of length at most n.
SeqsUpTo(S, n) ==
  IF n = 0 THEN {<<>>}
  ELSE LET shorter == SeqsUpTo(S, n - 1)
       IN  shorter \cup {Append(q, x) : q \in {r \in shorter : Len(r) = n - 1}, x \in S}

NotFoundStates == [found |-> FALSE, cases |-> <<>>]

ResolveInit ==
  /\ rsBlock \in {BlockStateString(k) : k \in WellTypedKeys}
  /\ rsStates \in {NotFoundStates} \cup
                  {[found |-> TRUE, cases |-> cs] : cs \in SeqsUpTo(Cases, MaxCases)}
  /\ rsResult = Pending

ResolveIdle ==
  /\ rsBlock = <<>>
  /\ rsStates = NotFoundStates
  /\ rsResult = Pending

\* One call get_block_model(asset_pack, block).
GetBlockModel ==
  /\ UNCHANGED notResolveVars
  /\ rsResult = Pending
  /\ rsResult' = get_block_model(rsStates, rsBlock)
  /\ UNCHANGED <<rsBlock, rsStates>>

ResolveNext == GetBlockModel

(***************************************************************************)
(* get_block_model on block-state strings of any shape                     *)
(***************************************************************************)

\* Bound on the number of comma-separated pieces between the brackets.
MaxPairs == 2

\* The pieces: well-formed pairs, pairs with an empty side or a second '=',
\* pieces without '=', a piece with a '['.
ParsePieces ==
  {<<"k", "=", "v">>, <<"j", "=", "w">>, <<"k", "=", "w">>, <<"k", "=">>, <<"=", "v">>,
   <<"k", "=", "v", "=", "w">>, <<"k">>, <<>>, <<"k", "[", "=", "v">>}

RECURSIVE join(_, _)
\* The pieces written one after another with sep between them.
join(pieces, sep) ==
  IF pieces = <<>> THEN <<>>
  ELSE IF Len(pieces) = 1 THEN pieces[1]
  ELSE pieces[1] \o <<sep>> \o join(Tail(pieces), sep)

\* Block-state strings: a name alone, or a name, '[', pieces with commas
\* between them, and no, one or two ']'.
ParseStrings ==
  {Stone, Wire}
    \cup {name \o <<"[">> \o join(pieces, ",") \o closing :
            name \in {Stone, <<>>},
            pieces \in SeqsUpTo(ParsePieces, MaxPairs),
            closing \in {<<>>, <<"]">>, <<"]", "]">>}}

ParseInit ==
  /\ rsBlock \in ParseStrings
  /\ rsStates \in {NotFoundStates,
                    [found |-> TRUE, cases |-> <<>>],
                    [found |-> TRUE, cases |-> <<[when |-> <<>>, apply |-> <<DotModel>>]>>]}
  /\ rsResult = Pending

(***************************************************************************)
(* get_tint_for_block, called on its own                                   *)
(***************************************************************************)

\* The texts of a power property: the numbers 0 to 15, and one that does
\* not parse.
PowerTexts == {<<ToString(p)>> : p \in 0..15} \cup {<<"abc">>}

\* The property maps get_tint_for_block is called with.
TintProps ==
  {<<>>, (<<"north">> :> <<"up">>)}
    \cup {(<<"power">> :> t) : t \in PowerTexts}
    \cup {(<<"power">> :> t) @@ (<<"north">> :> <<"up">>) : t \in PowerTexts}

TintIdle ==
  /\ tnName = <<>>
  /\ tnProps = <<>>
  /\ tnIdx = 0
  /\ tnResult = Pending

TintInit ==
  /\ tnName \in {Wire, Stone}
  /\ tnProps \in TintProps
  /\ tnIdx \in {0, 1}
  /\ tnResult = Pending

\* One call get_tint_for_block(block_name, block_props, tint_idx).
GetTint ==
  /\ UNCHANGED notTintVars
  /\ tnResult = Pending
  /\ tnResult' = [kind |-> "Ok", color |-> get_tint_for_block(tnName, tnProps, tnIdx)]
  /\ UNCHANGED <<tnName, tnProps, tnIdx>>

TintNext == GetTint

(***************************************************************************)
(* resolve_textures_completely                                             *)
(***************************************************************************)

\* A test for '#' that never matches.
strip_prefix_hash_never(texture) == None

\* Texture values: a literal path, or '#' followed by a variable name.
\* str::strip_prefix('#') on them.
strip_prefix_hash(texture) ==
  LET rest == ("#a" :> "a") @@ ("#b" :> "b") @@ ("#c" :> "c")
  IN  IF texture \in DOMAIN rest THEN Some(rest[texture]) ELSE None

TexVars == {"a", "b", "c"}
TexValues == {"#a", "#b", "#c", "block/stone", "block/dirt"}
TexTables == UNION {[S -> TexValues] : S \in SUBSET TexVars}

\* No call of resolve_textures_completely is under way.
TexIdle ==
  /\ txTable = <<>>
  /\ txTodo = {}
  /\ txName = ""
  /\ txCur = ""
  /\ txTarget = ""
  /\ txResolved = <<>>
  /\ txPc = "idle"

\* resolve_textures_completely(textures) is called.
TexInit ==
  /\ txTable \in TexTables
  /\ txTodo = DOMAIN txTable
  /\ txName = ""
  /\ txCur = ""
  /\ txTarget = ""
  /\ txResolved = <<>>
  /\ txPc = "for"

\* for (name, texture) in textures.iter(): the next entry, in the map's
\* iteration order, which is any order.
TexForNext(name) ==
  /\ UNCHANGED notModelVars
  /\ UNCHANGED pmVars
  /\ txPc = "for"
  /\ name \in txTodo
  /\ txTodo' = txTodo \ {name}
  /\ txName' = name
  /\ txCur' = txTable[name]
  /\ txPc' = "loop"
  /\ UNCHANGED <<txTable, txTarget, txResolved>>

\* if let Some(target) = texture.strip_prefix('#'): the texture starts
\* with '#'.
TexStrip ==
  /\ UNCHANGED notModelVars
  /\ UNCHANGED pmVars
  /\ txPc = "loop"
  /\ strip_prefix_hash(txCur).some
  /\ txTarget' = strip_prefix_hash(txCur).value
  /\ txPc' = "index"
  /\ UNCHANGED <<txTable, txTodo, txName, txCur, txResolved>>

\* texture = textures[target]: indexing panics when target is no key.
TexIndex ==
  /\ UNCHANGED notModelVars
  /\ UNCHANGED pmVars
  /\ txPc = "index"
  /\ IF txTarget \in DOMAIN txTable
       THEN /\ txCur' = txTable[txTarget]
            /\ txPc' = "loop"
       ELSE /\ txCur' = txCur
            /\ txPc' = "panicked"
  /\ UNCHANGED <<txTable, txTodo, txName, txTarget, txResolved>>

\* The turn of the loop that breaks, and the insert after the loop.
TexInsert ==
  /\ UNCHANGED notModelVars
  /\ UNCHANGED pmVars
  /\ txPc = "loop"
  /\ ~strip_prefix_hash(txCur).some
  /\ txResolved' = [n \in DOMAIN txResolved \cup {txName} |->
                      IF n = txName THEN txCur ELSE txResolved[n]]
  /\ txPc' = "for"
  /\ UNCHANGED <<txTable, txTodo, txName, txCur, txTarget>>

\* The for loop is over: resolved_textures is returned.
TexReturn ==
  /\ UNCHANGED notModelVars
  /\ UNCHANGED pmVars
  /\ txPc = "for"
  /\ txTodo = {}
  /\ txPc' = "done"
  /\ UNCHANGED <<txTable, txTodo, txName, txCur, txTarget, txResolved>>

TexNext ==
  \/ \E name \in TexVars : TexForNext(name)
  \/ TexStrip
  \/ TexIndex
  \/ TexInsert
  \/ TexReturn

(***************************************************************************)
(* process_model                                                           *)
(***************************************************************************)

\* Bound on the length of a parent chain.
MaxChain == 2

\* Textures::merge of the minecraft_assets crate: every entry of other is
\* inserted into self, replacing the entry self has under the same name.
textures_merge(self, other) ==
  [n \in DOMAIN self \cup DOMAIN other |-> IF n \in DOMAIN other THEN other[n] ELSE self[n]]

\* The model files of the asset pack: optional textures, optional elements.
ModelTextures ==
  {t \in UNION {[S -> {"#b", "block/stone", "block/dirt"}] : S \in SUBSET {"a", "b"}} :
     "b" \in DOMAIN t => t["b"] = "block/stone"}
ModelFiles ==
  [textures : {None} \cup {Some(t) : t \in ModelTextures},
   elements : {None, Some(<<"e1">>), Some(<<"e2">>)}]

\* The chains load_block_model_recursive returns for a model path: the
\* requested model first, its topmost ancestor last.  The chain of the dot
\* model is any chain, the one of the other models is fixed.
SideChain ==
  <<[textures |-> Some([a |-> "#b"]), elements |-> None],
    [textures |-> Some([b |-> "block/stone"]), elements |-> Some(<<"e1">>)]>>
ChainsOf(path) ==
  IF path = DotModel.model
    THEN SeqsUpTo(ModelFiles, MaxChain) \ {<<>>}
    ELSE {SideChain}

\* The lists of model references process_model is called with.
ModelRefLists == {<<DotModel>>, <<SideModel>>, <<DotModel, SideModel>>, <<SideModel, DotModel>>}

PmIdle ==
  /\ pmRefs = <<>>
  /\ pmChain = <<>>
  /\ pmPos = 0
  /\ pmTextures = <<>>
  /\ pmElements = <<>>
  /\ pmProcessed = <<>>
  /\ pmPc = "idle"

\* process_model(asset_pack, models) is called.
PmInit ==
  /\ pmRefs \in ModelRefLists
  /\ pmChain = <<>>
  /\ pmPos = 0
  /\ pmTextures = <<>>
  /\ pmElements = <<>>
  /\ pmProcessed = <<>>
  /\ pmPc = "for"

\* The body of the inner loop for one model of the reversed chain:
\* model_textures.merge(textures); textures = model_textures;
\* elements.append(&mut model_elements).
merge_model(model, textures, elements) ==
  [textures |-> IF model.textures.some
                  THEN textures_merge(model.textures.value, textures)
                  ELSE textures,
   elements |-> IF model.elements.some THEN elements \o model.elements.value ELSE elements]

\* The outer loop takes the next reference and loads its chain.
PmLoad(chain) ==
  /\ UNCHANGED notModelVars
  /\ pmPc = "for"
  /\ pmRefs # <<>>
  /\ chain \in ChainsOf(Head(pmRefs).model)
  /\ pmChain' = chain
  /\ pmPos' = 0
  /\ pmTextures' = <<>>
  /\ pmElements' = <<>>
  /\ pmPc' = "merge"
  /\ UNCHANGED <<pmRefs, pmProcessed>>
  /\ UNCHANGED texVars

\* load_block_model_recursive fails and the ? operator returns its error.
PmLoadFails ==
  /\ UNCHANGED notModelVars
  /\ pmPc = "for"
  /\ pmRefs # <<>>
  /\ pmPc' = "err"
  /\ UNCHANGED <<pmRefs, pmChain, pmPos, pmTextures, pmElements, pmProcessed>>
  /\ UNCHANGED texVars

\* One turn of the inner loop: for model in models.into_iter().rev().
PmMerge ==
  /\ UNCHANGED notModelVars
  /\ pmPc = "merge"
  /\ pmPos < Len(pmChain)
  /\ LET merged == merge_model(pmChain[Len(pmChain) - pmPos], pmTextures, pmElements)
     IN  /\ pmTextures' = merged.textures
         /\ pmElements' = merged.elements
  /\ pmPos' = pmPos + 1
  /\ UNCHANGED <<pmRefs, pmChain, pmProcessed, pmPc>>
  /\ UNCHANGED texVars

\* The inner loop is over: resolve_textures_completely(textures) is called.
PmResolve ==
  /\ UNCHANGED notModelVars
  /\ pmPc = "merge"
  /\ pmPos = Len(pmChain)
  /\ pmPc' = "resolve"
  /\ txTable' = pmTextures
  /\ txTodo' = DOMAIN pmTextures
  /\ txName' = ""
  /\ txCur' = ""
  /\ txTarget' = ""
  /\ txResolved' = <<>>
  /\ txPc' = "for"
  /\ UNCHANGED <<pmRefs, pmChain, pmPos, pmTextures, pmElements, pmProcessed>>

\* resolve_textures_completely has returned: the ProcessedModel is pushed.
PmPush ==
  /\ UNCHANGED notModelVars
  /\ pmPc = "resolve"
  /\ txPc = "done"
  /\ pmTextures' = txResolved
  /\ pmProcessed' = Append(pmProcessed,
                      [model_rot |-> <<Head(pmRefs).x, Head(pmRefs).y>>,
                       uv_lock |-> Head(pmRefs).uv_lock,
                       textures |-> txResolved,
                       elements |-> pmElements])
  /\ pmRefs' = Tail(pmRefs)
  /\ pmPc' = "for"
  /\ txPc' = "idle"
  /\ UNCHANGED <<pmChain, pmPos, pmElements>>
  /\ UNCHANGED <<txTable, txTodo, txName, txCur, txTarget, txResolved>>

\* The outer loop is over: Ok(processed_models).
PmReturn ==
  /\ UNCHANGED notModelVars
  /\ pmPc = "for"
  /\ pmRefs = <<>>
  /\ pmPc' = "ok"
  /\ UNCHANGED <<pmRefs, pmChain, pmPos, pmTextures, pmElements, pmProcessed>>
  /\ UNCHANGED texVars

PmNext ==
  \/ \E chain \in SeqsUpTo(ModelFiles, MaxChain) : PmLoad(chain)
  \/ PmLoadFails
  \/ PmMerge
  \/ PmResolve
  \/ TexNext
  \/ PmPush
  \/ PmReturn

(***************************************************************************)
(* create_texture_atlas (from the packed layout on) and get_tex_details     *)
(***************************************************************************)

\* Bound on the number of textures packed into the atlas.
MaxTiles == 2
\* Side of the packed atlas image, in pixels.
AtlasSide == 2

\* Alpha values: fully transparent, nearly so, opaque.
Alphas == {0, 1, 255}
U8Max == 255

\* The asset paths of the block textures, in the order they are packed.
TileNames == <<"stone", "glass", "dirt">>
AssetPath(tile) == <<"minecraft/textures/block/", tile, ".png">>

\* The rectangles of the atlas image, and the layouts TextureAtlasBuilder
\* can return: rectangles that do not overlap.
AtlasRects ==
  {[min |-> <<x0, y0>>, max |-> <<x1, y1>>] :
     x0 \in 0..(AtlasSide - 1), x1 \in 1..AtlasSide,
     y0 \in 0..(AtlasSide - 1), y1 \in 1..AtlasSide}
RectsOverlap(r, q) ==
  /\ r.min[1] < q.max[1] /\ q.min[1] < r.max[1]
  /\ r.min[2] < q.max[2] /\ q.min[2] < r.max[2]
AtlasLayouts ==
  {l \in SeqsUpTo({r \in AtlasRects : r.min[1] < r.max[1] /\ r.min[2] < r.max[2]},
                  MaxTiles) :
     /\ l # <<>>
     /\ \A i, j \in 1..Len(l) : i # j => ~RectsOverlap(l[i], l[j])}

\* The scan of main.rs, which flags every alpha below 255.
pixel_flags_any_below_max(alpha) == alpha # U8Max

\* pixel.0[3] != u8::MAX && pixel.0[3] != 0
pixel_flags(alpha) == alpha # U8Max /\ alpha # 0

RECURSIVE scan_tile(_, _, _, _)
\* The loops over x and y of one tile, from pixel (x, y) on: TRUE when
\* they reach a pixel that flags the tile (continue 'image), FALSE when
\* they run out.
scan_tile(image, rect, x, y) ==
  IF x >= rect.max[1] THEN FALSE
  ELSE IF y >= rect.max[2] THEN scan_tile(image, rect, x + 1, rect.min[2])
  ELSE IF pixel_flags(image[<<x, y>>]) THEN TRUE
  ELSE scan_tile(image, rect, x, y + 1)

\* No atlas has been returned.
NoTextureAtlas == [present |-> FALSE]

\* TextureAtlas::get_tex_details that answers with an empty rectangle for
\* a path that is not in the mapping.
get_tex_details_or_default(tex_atlas, texture_name) ==
  LET name == trim_start_matches_tok(trim_start_matches_tok(texture_name, "minecraft:"),
                                     "block/")
      texture_path == <<"minecraft/textures/block/">> \o name \o <<".png">>
  IN  IF texture_path \notin DOMAIN tex_atlas.mapping
        THEN [kind |-> "Ok",
              rect |-> [min |-> <<<<0, 1>>, <<0, 1>>>>, max |-> <<<<0, 1>>, <<0, 1>>>>],
              has_transparency |-> FALSE]
      ELSE LET image_id == tex_atlas.mapping[texture_path]
               idx_in_atlas == tex_atlas.layout.index[image_id]
               atlas_rect == tex_atlas.layout.textures[idx_in_atlas + 1]
               size == tex_atlas.layout.size
           IN  [kind |-> "Ok",
                rect |-> [min |-> <<<<atlas_rect.min[1], size[1]>>, <<atlas_rect.min[2], size[2]>>>>,
                          max |-> <<<<atlas_rect.max[1], size[1]>>, <<atlas_rect.max[2], size[2]>>>>],
                has_transparency |-> tex_atlas.has_transparency[idx_in_atlas + 1]]

\* TextureAtlas::get_tex_details.  A coordinate of the normalized
\* rectangle is a fraction <<numerator, denominator>>.
get_tex_details(tex_atlas, texture_name) ==
  LET name == trim_start_matches_tok(trim_start_matches_tok(texture_name, "minecraft:"),
                                     "block/")
      texture_path == <<"minecraft/textures/block/">> \o name \o <<".png">>
  IN  IF texture_path \notin DOMAIN tex_atlas.mapping
        THEN Panic("get_tex_details: no such key in mapping")
      ELSE LET image_id == tex_atlas.mapping[texture_path]
               idx_in_atlas == tex_atlas.layout.index[image_id]
               atlas_rect == tex_atlas.layout.textures[idx_in_atlas + 1]
               size == tex_atlas.layout.size
           IN  [kind |-> "Ok",
                rect |-> [min |-> <<<<atlas_rect.min[1], size[1]>>, <<atlas_rect.min[2], size[2]>>>>,
                          max |-> <<<<atlas_rect.max[1], size[1]>>, <<atlas_rect.max[2], size[2]>>>>],
                has_transparency |-> tex_atlas.has_transparency[idx_in_atlas + 1]]

\* The texture names get_tex_details is asked for.
TextureNames ==
  {prefix \o <<t>> :
     prefix \in {<<>>, <<"block/">>, <<"minecraft:", "block/">>, <<"minecraft:">>},
     t \in {"stone", "glass", "dirt", "missing"}}

AtlasIdle ==
  /\ atImage = <<>>
  /\ atSize = <<0, 0>>
  /\ atTiles = <<>>
  /\ atFlags = <<>>
  /\ atAtlas = NoTextureAtlas
  /\ atDetails = Pending
  /\ atPc = "idle"

\* texture_atlas_builder.finish() has returned the layout and the image.
AtlasInit ==
  /\ atImage \in [(0..(AtlasSide - 1)) \X (0..(AtlasSide - 1)) -> Alphas]
  /\ atSize = <<AtlasSide, AtlasSide>>
  /\ \E l \in AtlasLayouts :
       atTiles = [i \in 1..Len(l) |-> [path |-> AssetPath(TileNames[i]), rect |-> l[i]]]
  /\ atFlags = <<>>
  /\ atAtlas = NoTextureAtlas
  /\ atDetails = Pending
  /\ atPc = "scan"

\* One turn of the loop 'image: for idx in 0..texture_atlas_layout.len().
AtlasScanTile ==
  /\ UNCHANGED notAtlasVars
  /\ atPc = "scan"
  /\ Len(atFlags) < Len(atTiles)
  /\ LET rect == atTiles[Len(atFlags) + 1].rect
     IN  atFlags' = Append(atFlags, scan_tile(atImage, rect, rect.min[1], rect.min[2]))
  /\ UNCHANGED <<atImage, atSize, atTiles, atAtlas, atDetails, atPc>>

\* The loop is over: the TextureAtlas is returned.
AtlasReturn ==
  /\ UNCHANGED notAtlasVars
  /\ atPc = "scan"
  /\ Len(atFlags) = Len(atTiles)
  /\ atAtlas' = [present |-> TRUE,
                 layout |-> [size |-> atSize,
                             textures |-> [i \in 1..Len(atTiles) |-> atTiles[i].rect],
                             index |-> [id \in {atTiles[i].path : i \in 1..Len(atTiles)} |->
                                          (CHOOSE i \in 1..Len(atTiles) : atTiles[i].path = id) - 1]],
                 has_transparency |-> atFlags,
                 mapping |-> [path \in {atTiles[i].path : i \in 1..Len(atTiles)} |-> path]]
  /\ atPc' = "built"
  /\ UNCHANGED <<atImage, atSize, atTiles, atFlags, atDetails>>

\* One call atlas.get_tex_details(texture_name).
GetTexDetails(texture_name) ==
  /\ UNCHANGED notAtlasVars
  /\ atPc = "built"
  /\ atDetails = Pending
  /\ atDetails' = [name |-> texture_name, outcome |-> get_tex_details(atAtlas, texture_name)]
  /\ UNCHANGED <<atImage, atSize, atTiles, atFlags, atAtlas, atPc>>

AtlasNext ==
  \/ AtlasScanTile
  \/ AtlasReturn
  \/ \E texture_name \in TextureNames : GetTexDetails(texture_name)

(***************************************************************************)
(* Vectors and rotations.  Lengths are in model units (sixteenths of a     *)
(* block), texture coordinates in sixteenths of a texture, angles in       *)
(* degrees and multiples of 90, for which sine and cosine are integers:    *)
(* the arithmetic is that of the reals, not of f32.                        *)
(***************************************************************************)
Mod360(a) == ((a % 360) + 360) % 360
cos_deg(a) == CASE Mod360(a) = 0 -> 1 [] Mod360(a) = 180 -> -1 [] OTHER -> 0
sin_deg(a) == CASE Mod360(a) = 90 -> 1 [] Mod360(a) = 270 -> -1 [] OTHER -> 0

\* A rotation (Quat) is kept as its 3x3 matrix, a tuple of rows.
from_rotation_x(a) == <<<<1, 0, 0>>, <<0, cos_deg(a), -sin_deg(a)>>, <<0, sin_deg(a), cos_deg(a)>>>>
from_rotation_y(a) == <<<<cos_deg(a), 0, sin_deg(a)>>, <<0, 1, 0>>, <<-sin_deg(a), 0, cos_deg(a)>>>>
from_rotation_z(a) == <<<<cos_deg(a), -sin_deg(a), 0>>, <<sin_deg(a), cos_deg(a), 0>>, <<0, 0, 1>>>>

\* Quat * Quat: the rotation that applies q first and then p.
quat_mul(p, q) ==
  [i \in 1..3 |-> [j \in 1..3 |-> p[i][1] * q[1][j] + p[i][2] * q[2][j] + p[i][3] * q[3][j]]]
mul_vec3(m, v) == [i \in 1..3 |-> m[i][1] * v[1] + m[i][2] * v[2] + m[i][3] * v[3]]
mat_transpose(m) == [i \in 1..3 |-> [j \in 1..3 |-> m[j][i]]]
\* The inverse of a rotation matrix is its transpose.
mat_inverse(m) == mat_transpose(m)
vec_add(v, w) == [i \in 1..3 |-> v[i] + w[i]]
vec_sub(v, w) == [i \in 1..3 |-> v[i] - w[i]]
\* Vec3::normalize_or_zero on the vectors that occur: unit vectors.
normalize_or_zero(v) == v

\* rot_vert_with_orig with the origin left out.
rot_vert_about_zero(rot, orig, vert) == mul_vec3(rot, vert)

\* rot_vert_with_orig
rot_vert_with_orig(rot, orig, vert) == vec_add(mul_vec3(rot, vec_sub(vert, orig)), orig)

\* rotate_uv_with_orig
rotate_uv_with_orig(rot, orig, uv) ==
  LET res == rot_vert_with_orig(from_rotation_y(rot), <<orig[1], 0, orig[2]>>,
                                <<uv[1], 0, uv[2]>>)
  IN  <<res[1], res[3]>>

(***************************************************************************)
(* element_mesh and create_mesh_for_block                                  *)
(***************************************************************************)

\* Bound on the number of elements of a processed model.
MaxElements == 2

\* Texture values as token sequences: <<"#", name>> is a reference.
StoneTex == <<"block/", "stone">>
GlassTex == <<"block/", "glass">>
WaterTex == <<"block/", "water_still">>
TexRef(name) == <<"#", name>>

\* Texture::resolve of the minecraft_assets crate: a reference resolves to
\* the literal the table holds under its name, if it holds one; a literal
\* resolves to itself.
texture_resolve(texture, textures) ==
  IF texture # <<>> /\ texture[1] = "#"
    THEN LET name == texture[2]
         IN  IF name \in DOMAIN textures /\ textures[name][1] # "#"
               THEN Some(textures[name])
               ELSE None
    ELSE Some(texture)

\* TextureDetails::get_atlas_uvs: rect.min.lerp(rect.max, uv), with uv in
\* sixteenths; a coordinate of the result is a fraction.
get_atlas_uvs(rect, uv_x, uv_y) ==
  <<<<16 * rect.min[1][1] + (rect.max[1][1] - rect.min[1][1]) * uv_x, 16 * rect.min[1][2]>>,
    <<16 * rect.min[2][1] + (rect.max[2][1] - rect.min[2][1]) * uv_y, 16 * rect.min[2][2]>>>>

\* (a / 16).lerp(b / 16, t) in sixteenths, for t = 0 or 1 (t is 0 or 16).
lerp16(a, b, t) == a + ((b - a) * t) \div 16

\* The rotation common_face takes for every face, whatever use_x_rot says.
face_uv_rot_y_only(use_x_rot, uv_rot) == uv_rot[2]

\* let rot = if use_x_rot { uv_rot.x } else { uv_rot.y }
face_uv_rot(use_x_rot, uv_rot) == IF use_x_rot THEN uv_rot[1] ELSE uv_rot[2]

\* The empty buffers of element_mesh and of create_mesh_for_block.  face_uvs
\* keeps, next to uvs, the local [uv_x, uv_y] handed to get_atlas_uvs.
EmptyMesh ==
  [positions |-> <<>>, normals |-> <<>>, uvs |-> <<>>, face_uvs |-> <<>>, indices |-> <<>>,
   has_transparency |-> FALSE, warn |-> 0, panic |-> FALSE]

\* The four vertices of a face: the loop over face_positions.
face_vertex(face, texture, uv_rot, use_x_rot, pos_uv) ==
  LET norm_uv == pos_uv[2]
      uv_x == IF face.uv.some THEN lerp16(face.uv.value[1], face.uv.value[3], norm_uv[1])
              ELSE norm_uv[1]
      uv_y == IF face.uv.some THEN lerp16(face.uv.value[2], face.uv.value[4], norm_uv[2])
              ELSE norm_uv[2]
      rot == face_uv_rot(use_x_rot, uv_rot)
      uv == rotate_uv_with_orig(rot, <<8, 8>>, <<uv_x, uv_y>>)
  IN  [pos |-> pos_uv[1], face_uv |-> uv, uv |-> get_atlas_uvs(texture.rect, uv[1], uv[2])]

\* The pushes of common_face: six indices, four normals, four positions and
\* four texture coordinates.
push_face(m, transparent, normal, verts) ==
  [positions |-> m.positions \o [k \in 1..4 |-> verts[k].pos],
   normals |-> m.normals \o <<normal, normal, normal, normal>>,
   uvs |-> m.uvs \o [k \in 1..4 |-> verts[k].uv],
   face_uvs |-> m.face_uvs \o [k \in 1..4 |-> verts[k].face_uv],
   indices |-> m.indices \o [k \in 1..6 |-> <<0, 1, 2, 2, 3, 0>>[k] + Len(m.positions)],
   has_transparency |-> m.has_transparency \/ transparent,
   warn |-> m.warn,
   panic |-> m.panic]

\* common_face that emits a face whose texture does not resolve, with the
\* stone texture.
common_face_emit_unresolved(m, face, face_positions, normal, use_x_rot, tex_atlas, textures, uv_rot) ==
  LET found == texture_resolve(face.texture, textures)
      texture == get_tex_details(tex_atlas, IF found.some THEN found.value ELSE StoneTex)
  IN  IF m.panic THEN m
      ELSE IF texture.kind = "Panic" THEN [m EXCEPT !.panic = TRUE]
      ELSE push_face(m, texture.has_transparency, normal,
                     [k \in 1..4 |-> face_vertex(face, texture, uv_rot, use_x_rot,
                                                 face_positions[k])])

\* The closure common_face of element_mesh, on the buffers m.
common_face(m, face, face_positions, normal, use_x_rot, tex_atlas, textures, uv_rot) ==
  LET found == texture_resolve(face.texture, textures)
      texture == get_tex_details(tex_atlas, found.value)
  IN  IF m.panic THEN m
      ELSE IF ~found.some THEN [m EXCEPT !.warn = @ + 1]
      ELSE CHOOSE r \in
             {IF t.kind = "Panic" THEN [m EXCEPT !.panic = TRUE]
              ELSE push_face(m, t.has_transparency, normal,
                             [k \in 1..4 |-> face_vertex(face, t, uv_rot, use_x_rot,
                                                         face_positions[k])]) :
              t \in {texture}} : TRUE

\* The faces in the order element_mesh handles them.
FaceOrder == <<"Up", "Down", "East", "West", "South", "North">>

\* The arguments element_mesh gives common_face for a face: the corners
\* with their texture coordinates (0 or 16 sixteenths), the normal, and
\* use_x_rot.
FaceArgs(f, min, max) ==
  CASE f = "Up" ->
         [positions |-> << <<<<max[1], max[2], min[3]>>, <<16, 0>>>>,
                           <<<<min[1], max[2], min[3]>>, <<0, 0>>>>,
                           <<<<min[1], max[2], max[3]>>, <<0, 16>>>>,
                           <<<<max[1], max[2], max[3]>>, <<16, 16>>>> >>,
          normal |-> <<0, 1, 0>>, use_x_rot |-> FALSE]
    [] f = "Down" ->
         [positions |-> << <<<<max[1], min[2], max[3]>>, <<0, 0>>>>,
                           <<<<min[1], min[2], max[3]>>, <<16, 0>>>>,
                           <<<<min[1], min[2], min[3]>>, <<16, 16>>>>,
                           <<<<max[1], min[2], min[3]>>, <<0, 16>>>> >>,
          normal |-> <<0, -1, 0>>, use_x_rot |-> FALSE]
    [] f = "East" ->
         [positions |-> << <<<<max[1], min[2], min[3]>>, <<16, 16>>>>,
                           <<<<max[1], max[2], min[3]>>, <<16, 0>>>>,
                           <<<<max[1], max[2], max[3]>>, <<0, 0>>>>,
                           <<<<max[1], min[2], max[3]>>, <<0, 16>>>> >>,
          normal |-> <<1, 0, 0>>, use_x_rot |-> TRUE]
    [] f = "West" ->
         [positions |-> << <<<<min[1], min[2], max[3]>>, <<16, 16>>>>,
                           <<<<min[1], max[2], max[3]>>, <<16, 0>>>>,
                           <<<<min[1], max[2], min[3]>>, <<0, 0>>>>,
                           <<<<min[1], min[2], min[3]>>, <<0, 16>>>> >>,
          normal |-> <<-1, 0, 0>>, use_x_rot |-> TRUE]
    [] f = "South" ->
         [positions |-> << <<<<min[1], min[2], max[3]>>, <<0, 16>>>>,
                           <<<<max[1], min[2], max[3]>>, <<16, 16>>>>,
                           <<<<max[1], max[2], max[3]>>, <<16, 0>>>>,
                           <<<<min[1], max[2], max[3]>>, <<0, 0>>>> >>,
          normal |-> <<0, 0, 1>>, use_x_rot |-> TRUE]
    [] OTHER ->
         [positions |-> << <<<<min[1], max[2], min[3]>>, <<0, 0>>>>,
                           <<<<max[1], max[2], min[3]>>, <<16, 0>>>>,
                           <<<<max[1], min[2], min[3]>>, <<16, 16>>>>,
                           <<<<min[1], min[2], min[3]>>, <<0, 16>>>> >>,
          normal |-> <<0, 0, -1>>, use_x_rot |-> TRUE]

RECURSIVE element_faces(_, _, _, _, _, _)
\* The six if let Some(face) = element.faces.get(..) of element_mesh, from
\* the i-th on.
element_faces(m, element, tex_atlas, textures, uv_rot, i) ==
  IF i > Len(FaceOrder) THEN m
  ELSE LET f == FaceOrder[i]
           args == FaceArgs(f, element.from, element.to)
       IN  CHOOSE r \in
             {element_faces(next, element, tex_atlas, textures, uv_rot, i + 1) :
              next \in {IF f \in DOMAIN element.faces
                          THEN common_face(m, element.faces[f], args.positions, args.normal,
                                           args.use_x_rot, tex_atlas, textures, uv_rot)
                          ELSE m}} : TRUE

\* element_mesh: the Mesh (its attributes) and has_transparency.
element_mesh(element, tex_atlas, textures, uv_rot) ==
  element_faces(EmptyMesh, element, tex_atlas, textures, uv_rot, 1)

\* The copy loops of create_mesh_for_block with the indices of the element
\* pushed as they are, without indices_offset.
append_element_no_offset(m, mesh, model_rot, elem_rot, origin, inverse_transpose_model) ==
  IF m.panic THEN m
  ELSE IF mesh.panic THEN [m EXCEPT !.panic = TRUE, !.warn = @ + mesh.warn]
  ELSE [positions |-> m.positions \o
                        [k \in 1..Len(mesh.positions) |->
                           rot_vert_with_orig(model_rot, <<8, 8, 8>>,
                             rot_vert_with_orig(elem_rot, origin, mesh.positions[k]))],
        normals |-> m.normals \o
                      [k \in 1..Len(mesh.normals) |->
                         normalize_or_zero(mul_vec3(inverse_transpose_model, mesh.normals[k]))],
        uvs |-> m.uvs \o mesh.uvs,
        face_uvs |-> m.face_uvs \o mesh.face_uvs,
        indices |-> m.indices \o
                      [k \in 1..Len(mesh.indices) |-> mesh.indices[k]],
        has_transparency |-> m.has_transparency \/ mesh.has_transparency,
        warn |-> m.warn + mesh.warn,
        panic |-> FALSE]

\* The loops of create_mesh_for_block that copy the mesh of one element
\* into the buffers m: indices with indices_offset, normals through
\* inverse_transpose_model, uvs, and positions through the two rotations.
append_element(m, mesh, model_rot, elem_rot, origin, inverse_transpose_model) ==
  IF m.panic THEN m
  ELSE IF mesh.panic THEN [m EXCEPT !.panic = TRUE, !.warn = @ + mesh.warn]
  ELSE [positions |-> m.positions \o
                        [k \in 1..Len(mesh.positions) |->
                           rot_vert_with_orig(model_rot, <<8, 8, 8>>,
                             rot_vert_with_orig(elem_rot, origin, mesh.positions[k]))],
        normals |-> m.normals \o
                      [k \in 1..Len(mesh.normals) |->
                         normalize_or_zero(mul_vec3(inverse_transpose_model, mesh.normals[k]))],
        uvs |-> m.uvs \o mesh.uvs,
        face_uvs |-> m.face_uvs \o mesh.face_uvs,
        indices |-> m.indices \o
                      [k \in 1..Len(mesh.indices) |-> mesh.indices[k] + Len(m.positions)],
        has_transparency |-> m.has_transparency \/ mesh.has_transparency,
        warn |-> m.warn + mesh.warn,
        panic |-> FALSE]

\* The model rotation with the factors exchanged: from_rotation_x(x) *
\* from_rotation_y(y), the Y rotation applied first.
model_rotation_euler_xyz(model_rot) ==
  quat_mul(from_rotation_x(model_rot[1]), from_rotation_y(model_rot[2]))

\* Quat::from_rotation_y(model_rot.y) * Quat::from_rotation_x(model_rot.x)
model_rotation(model_rot) ==
  quat_mul(from_rotation_y(model_rot[2]), from_rotation_x(model_rot[1]))

\* The body of the loops of create_mesh_for_block for one element of one
\* model, on the buffers m.
mesh_element(m, model, element, tex_atlas) ==
  LET model_rot == <<-model.model_rot[1], -model.model_rot[2]>>
      mesh == element_mesh(element, tex_atlas, model.textures,
                           IF model.uv_lock THEN model_rot ELSE <<0, 0>>)
      model_quat == model_rotation(model_rot)
      rot_angle == element.rotation.angle
      elem_rot == CASE element.rotation.axis = "X" -> from_rotation_x(rot_angle)
                    [] element.rotation.axis = "Y" -> from_rotation_y(rot_angle)
                    [] OTHER -> from_rotation_z(rot_angle)
      mat == quat_mul(model_quat, elem_rot)
  IN  CHOOSE r \in
        {append_element(m, em, mq, er, element.rotation.origin, itm) :
         em \in {mesh}, mq \in {model_quat}, er \in {elem_rot},
         itm \in {mat_transpose(mat_inverse(mat))}} : TRUE

\* The atlas the meshes are built against: stone, opaque, in the left half
\* and glass, with partial alpha, in the right half of a 2 x 1 image.
MeshAtlas ==
  [present |-> TRUE,
   layout |-> [size |-> <<2, 1>>,
               textures |-> <<[min |-> <<0, 0>>, max |-> <<1, 1>>],
                              [min |-> <<1, 0>>, max |-> <<2, 1>>]>>,
               index |-> (AssetPath("stone") :> 0) @@ (AssetPath("glass") :> 1)],
   has_transparency |-> <<FALSE, TRUE>>,
   mapping |-> (AssetPath("stone") :> AssetPath("stone"))
                 @@ (AssetPath("glass") :> AssetPath("glass"))]

\* The resolved texture table of the models.
MeshTextures == [all |-> StoneTex, glass |-> GlassTex, water |-> WaterTex]

\* Element boxes, face maps and rotations.
CubeBox == [from |-> <<0, 0, 0>>, to |-> <<16, 16, 16>>]
SlabBox == [from |-> <<0, 8, 8>>, to |-> <<16, 9, 10>>]
Face(texture, uv) == [texture |-> texture, uv |-> uv]
AllFaces == [f \in {"Up", "Down", "East", "West", "South", "North"} |-> Face(TexRef("all"), None)]
UpUnresolved == [AllFaces EXCEPT !["Up"] = Face(TexRef("missing"), None)]
GlassTop ==
  [f \in {"Up", "Down", "North"} |->
     IF f = "Up" THEN Face(TexRef("glass"), Some(<<0, 0, 8, 16>>))
     ELSE IF f = "Down" THEN Face(TexRef("all"), Some(<<0, 0, 8, 16>>))
     ELSE Face(StoneTex, None)]
OnlyUnresolved == [f \in {"East"} |-> Face(TexRef("missing"), None)]
NotPacked == [f \in {"Up", "South"} |-> Face(TexRef(IF f = "Up" THEN "water" ELSE "all"), None)]
NoRot == [origin |-> <<8, 8, 8>>, axis |-> "Y", angle |-> 0]
RotY90 == [origin |-> <<8, 8, 8>>, axis |-> "Y", angle |-> 90]
RotXNeg90 == [origin |-> <<0, 8, 8>>, axis |-> "X", angle |-> -90]
RotZ90 == [origin |-> <<8, 0, 0>>, axis |-> "Z", angle |-> 90]
Element(box, faces, rotation) ==
  [from |-> box.from, to |-> box.to, faces |-> faces, rotation |-> rotation]

MeshElements ==
  {Element(CubeBox, AllFaces, NoRot), Element(SlabBox, AllFaces, RotY90),
   Element(SlabBox, GlassTop, RotXNeg90), Element(CubeBox, UpUnresolved, RotZ90),
   Element(SlabBox, OnlyUnresolved, NoRot), Element(CubeBox, NotPacked, NoRot)}

\* The processed models of a block: the model rotations of block-state
\* files are multiples of 90 degrees.
MeshModels ==
  [model_rot : {0, 90} \X {0, 90},
   uv_lock : BOOLEAN,
   textures : {MeshTextures},
   elements : SeqsUpTo(MeshElements, MaxElements)]
SecondModel ==
  [model_rot |-> <<0, 180>>, uv_lock |-> FALSE, textures |-> MeshTextures,
   elements |-> <<Element(CubeBox, AllFaces, NoRot)>>]

MeshIdle ==
  /\ msModels = [models |-> <<>>, tint |-> None]
  /\ msM = 0
  /\ msE = 0
  /\ msMesh = EmptyMesh
  /\ msResult = Pending
  /\ msPc = "idle"

\* create_mesh_for_block(block, atlas, block_models, mesh_assets) is called
\* for a block that block_models holds.
MeshInit ==
  /\ \E m \in MeshModels, rest \in {<<>>, <<SecondModel>>} :
       msModels = [models |-> <<m>> \o rest, tint |-> None]
  /\ msM = 0
  /\ msE = 0
  /\ msMesh = EmptyMesh
  /\ msResult = Pending
  /\ msPc = "loop"

\* One turn of the inner loop: for element in &model.elements.
MsElement ==
  /\ UNCHANGED notMeshVars
  /\ msPc = "loop"
  /\ msM < Len(msModels.models)
  /\ msE < Len(msModels.models[msM + 1].elements)
  /\ LET model == msModels.models[msM + 1]
         m == mesh_element(msMesh, model, model.elements[msE + 1], MeshAtlas)
     IN  /\ msMesh' = m
         /\ msPc' = IF m.panic THEN "panicked" ELSE "loop"
  /\ msE' = msE + 1
  /\ UNCHANGED <<msModels, msM, msResult>>

\* The inner loop is over: the outer loop goes to the next model.
MsNextModel ==
  /\ UNCHANGED notMeshVars
  /\ msPc = "loop"
  /\ msM < Len(msModels.models)
  /\ msE = Len(msModels.models[msM + 1].elements)
  /\ msM' = msM + 1
  /\ msE' = 0
  /\ UNCHANGED <<msModels, msMesh, msResult, msPc>>

\* The outer loop is over: the mesh is added to the assets and returned
\* with has_transparency and the tint.
MsReturn ==
  /\ UNCHANGED notMeshVars
  /\ msPc = "loop"
  /\ msM = Len(msModels.models)
  /\ msResult' = [kind |-> "Ok",
                  mesh |-> [positions |-> msMesh.positions, normals |-> msMesh.normals,
                            uvs |-> msMesh.uvs, indices |-> msMesh.indices],
                  has_transparency |-> msMesh.has_transparency,
                  tint |-> msModels.tint]
  /\ msPc' = "done"
  /\ UNCHANGED <<msModels, msM, msE, msMesh>>

MeshNext ==
  \/ MsElement
  \/ MsNextModel
  \/ MsReturn

(***************************************************************************)
(* get_block_models_for                                                    *)
(***************************************************************************)

\* Bound on the number of voxels of the schematic.
MaxVoxels == 3

\* The block-state strings of the schematic.
ScanBlocks == {Stone, Wire1, Wire5}

\* The base name of a block-state string: the name get_block_model hands
\* load_blockstates.
block_name(block) ==
  LET cut == split_once(block, "[")
  IN  IF cut.some THEN cut.value[1] ELSE block

\* The blockstates files of the asset pack.
ScanStates ==
  (Stone :> [found |-> TRUE, cases |-> <<[when |-> <<>>, apply |-> <<DotModel>>]>>])
    @@ (Wire :> [found |-> TRUE,
                 cases |-> <<[when |-> (<<"power">> :> {<<"0">>, <<"1">>, <<"2">>}),
                              apply |-> <<DotModel>>],
                             [when |-> <<>>, apply |-> <<SideModel, SideAltModel>>]>>])

\* The parent chain of the dot model in the asset pack.
DotChain == <<[textures |-> Some([a |-> "block/dirt"]), elements |-> Some(<<"e2">>)]>>

\* Asset packs: each lacks the blockstates files of some blocks and the
\* files of some models.
AssetPacks ==
  [no_states : SUBSET {Stone, Wire}, no_model : SUBSET {DotModel.model, SideModel.model}]

\* asset_pack.load_blockstates(name)
load_blockstates(pack, name) ==
  IF name \in pack.no_states \/ name \notin DOMAIN ScanStates
    THEN NotFoundStates
    ELSE ScanStates[name]

\* asset_pack.load_block_model_recursive(&model_props.model)
load_block_model_recursive(pack, model) ==
  IF model \in pack.no_model THEN Err("NotFound")
  ELSE [kind |-> "Ok", models |-> IF model = DotModel.model THEN DotChain ELSE SideChain]

RECURSIVE follow_texture(_, _)
\* The loop of resolve_textures_completely for one entry, on a table
\* without reference cycles.
follow_texture(textures, texture) ==
  LET target == strip_prefix_hash(texture)
  IN  IF target.some THEN follow_texture(textures, textures[target.value]) ELSE texture

\* resolve_textures_completely on a table without reference cycles.
resolve_textures_completely(textures) ==
  [name \in DOMAIN textures |-> follow_texture(textures, textures[name])]

RECURSIVE merge_chain(_, _, _, _)
\* for model in models.into_iter().rev(), from the i-th model of the
\* reversed chain on.
merge_chain(chain, i, textures, elements) ==
  IF i > Len(chain) THEN [textures |-> textures, elements |-> elements]
  ELSE LET merged == merge_model(chain[Len(chain) + 1 - i], textures, elements)
       IN  merge_chain(chain, i + 1, merged.textures, merged.elements)

RECURSIVE process_model(_, _, _)
\* process_model: the loop over the model references, with the models
\* processed so far.
process_model(pack, models, processed_models) ==
  IF models = <<>> THEN [kind |-> "Ok", models |-> processed_models]
  ELSE LET model_props == Head(models)
           loaded == load_block_model_recursive(pack, model_props.model)
           merged == merge_chain(loaded.models, 1, <<>>, <<>>)
       IN  IF loaded.kind = "Err" THEN loaded
           ELSE process_model(pack, Tail(models),
                  Append(processed_models,
                         [model_rot |-> <<model_props.x, model_props.y>>,
                          uv_lock |-> model_props.uv_lock,
                          textures |-> resolve_textures_completely(merged.textures),
                          elements |-> merged.elements]))

\* The two calls for a block with the errors swallowed: a block whose
\* lookup fails gets no models.
block_models_or_default(pack, block) ==
  LET found == get_block_model(load_blockstates(pack, block_name(block)), block)
      model == IF found.kind = "Ok" THEN process_model(pack, found.models, <<>>)
               ELSE found
  IN  IF found.kind = "Ok" /\ model.kind = "Ok"
        THEN [kind |-> "Ok", entry |-> [models |-> model.models, tint |-> found.tint]]
        ELSE [kind |-> "Ok", entry |-> [models |-> <<>>, tint |-> None]]

\* let (model_properties, tint) = get_block_model(&asset_pack, block)?;
\* let model = process_model(&asset_pack, model_properties)?;
block_models(pack, block) ==
  LET found == get_block_model(load_blockstates(pack, block_name(block)), block)
      model == process_model(pack, found.models, <<>>)
  IN  IF found.kind # "Ok" THEN found
      ELSE IF model.kind # "Ok" THEN model
      ELSE [kind |-> "Ok", entry |-> [models |-> model.models, tint |-> found.tint]]

\* The sizes of a schematic of at most MaxVoxels voxels, and its grids.
ScanSizes ==
  {s \in (0..MaxVoxels) \X (1..MaxVoxels) \X (1..MaxVoxels) : s[1] * s[2] * s[3] <= MaxVoxels}
Positions(size) == (0..(size[1] - 1)) \X (0..(size[2] - 1)) \X (0..(size[3] - 1))
Grids ==
  UNION {[size : {s}, blocks : [Positions(s) -> ScanBlocks]] : s \in ScanSizes}

\* The voxel reached after n others by loops that run from the far end.
voxel_at_reversed(size, n) ==
  LET m == size[1] * size[2] * size[3] - 1 - n
  IN  <<m \div (size[2] * size[3]), (m \div size[3]) % size[2], m % size[3]>>

\* The voxel the loops for x, for y, for z reach after n others.
voxel_at(size, n) ==
  <<n \div (size[2] * size[3]), (n \div size[3]) % size[2], n % size[3]>>
Volume(size) == size[1] * size[2] * size[3]

ScanIdle ==
  /\ gmGrid = [size |-> <<0, 0, 0>>, blocks |-> <<>>]
  /\ gmPack = [no_states |-> {}, no_model |-> {}]
  /\ gmPos = 0
  /\ gmModels = <<>>
  /\ gmLog = <<>>
  /\ gmResult = Pending

\* get_block_models_for(asset_pack, schem) is called.
ScanInit ==
  /\ gmGrid \in Grids
  /\ gmPack \in AssetPacks
  /\ gmPos = 0
  /\ gmModels = <<>>
  /\ gmLog = <<>>
  /\ gmResult = Pending

\* The loops reach a voxel whose block is a key of models.
ScanKnown ==
  /\ UNCHANGED notScanVars
  /\ gmResult = Pending
  /\ gmPos < Volume(gmGrid.size)
  /\ gmGrid.blocks[voxel_at(gmGrid.size, gmPos)] \in DOMAIN gmModels
  /\ gmPos' = gmPos + 1
  /\ UNCHANGED <<gmGrid, gmPack, gmModels, gmLog, gmResult>>

\* The loops reach a voxel whose block is new: its models are looked up
\* and inserted, or the error of the lookup is returned.
ScanNew ==
  /\ UNCHANGED notScanVars
  /\ gmResult = Pending
  /\ gmPos < Volume(gmGrid.size)
  /\ LET block == gmGrid.blocks[voxel_at(gmGrid.size, gmPos)]
         looked == block_models(gmPack, block)
     IN  /\ block \notin DOMAIN gmModels
         /\ gmLog' = Append(gmLog, voxel_at(gmGrid.size, gmPos))
         /\ IF looked.kind = "Ok"
              THEN /\ gmModels' = gmModels @@ (block :> looked.entry)
                   /\ gmPos' = gmPos + 1
                   /\ UNCHANGED gmResult
              ELSE /\ gmResult' = looked
                   /\ UNCHANGED <<gmModels, gmPos>>
  /\ UNCHANGED <<gmGrid, gmPack>>

\* The loops are over: Ok(BlockModels(models)).
ScanReturn ==
  /\ UNCHANGED notScanVars
  /\ gmResult = Pending
  /\ gmPos = Volume(gmGrid.size)
  /\ gmResult' = [kind |-> "Ok", block_models |-> gmModels]
  /\ UNCHANGED <<gmGrid, gmPack, gmPos, gmModels, gmLog>>

ScanNext ==
  \/ ScanKnown
  \/ ScanNew
  \/ ScanReturn

(***************************************************************************)
(* setup (main.rs): one mesh per palette block, one drawable per voxel     *)
(***************************************************************************)

\* The block-state strings of the world.
WorldBlocks == {Air, Stone, Wire1}

\* A block-state string that a palette may list while no voxel holds it.
PaletteOnlyBlocks == {<<"minecraft:dirt">>}

\* The worlds: grids of at most MaxVoxels voxels, each with the palette of
\* its schematic, which lists the block-state string of every voxel and
\* may list strings that no voxel holds.
Worlds ==
  {[size |-> g.size, blocks |-> g.blocks,
    palette |-> {g.blocks[p] : p \in Positions(g.size)} \cup extra] :
     g \in UNION {[size : {s}, blocks : [Positions(s) -> WorldBlocks]] : s \in ScanSizes},
     extra \in SUBSET PaletteOnlyBlocks}

\* block_world.blocks.blocks_in_palette(): the block-state strings the
\* palette of the schematic lists.
blocks_in_palette(world) == world.palette

\* The keys of the BlockModels resource that main inserts: the strings its
\* loops for x, for y, for z met in schematic.blocks.  (When a lookup
\* fails main returns the error and setup never runs.)
BlockModels(world) == {world.blocks[p] : p \in Positions(world.size)}

\* A test for air that no block passes.
is_air_never(block) == FALSE

\* block == "minecraft:air"
is_air(block) == block = <<"minecraft:air">>

WorldIdle ==
  /\ wdGrid = [size |-> <<0, 0, 0>>, blocks |-> <<>>, palette |-> {}]
  /\ wdPos = 0
  /\ wdMeshMap = <<>>
  /\ wdSpawned = <<>>
  /\ wdPc = "idle"

\* setup runs: the atlas has been created.
WorldInit ==
  /\ wdGrid \in Worlds
  /\ wdPos = 0
  /\ wdMeshMap = <<>>
  /\ wdSpawned = <<>>
  /\ wdPc = "meshes"

\* One turn of for block in block_world.blocks.blocks_in_palette(): the
\* mesh of the block is created, added to the assets and put in mesh_map.
\* create_mesh_for_block begins with block_models.0[block], which panics
\* for a string that is no key of BlockModels.
SetupMesh(block) ==
  /\ UNCHANGED notWorldVars
  /\ wdPc = "meshes"
  /\ block \in blocks_in_palette(wdGrid) \ DOMAIN wdMeshMap
  /\ IF block \in BlockModels(wdGrid)
       THEN /\ wdMeshMap' = wdMeshMap @@ (block :> [mesh |-> Cardinality(DOMAIN wdMeshMap) + 1])
            /\ UNCHANGED wdPc
       ELSE /\ wdPc' = "panic"
            /\ UNCHANGED wdMeshMap
  /\ UNCHANGED <<wdGrid, wdPos, wdSpawned>>

\* The loop over the palette is over: the materials are created and the
\* loops over the voxels begin.
SetupMaterials ==
  /\ UNCHANGED notWorldVars
  /\ wdPc = "meshes"
  /\ blocks_in_palette(wdGrid) \subseteq DOMAIN wdMeshMap
  /\ wdPc' = "voxels"
  /\ UNCHANGED <<wdGrid, wdPos, wdMeshMap, wdSpawned>>

\* One turn of the loops over the voxels: continue for air, or
\* commands.spawn(PbrBundle { mesh, material, transform }).
SetupVoxel ==
  /\ UNCHANGED notWorldVars
  /\ wdPc = "voxels"
  /\ wdPos < Volume(wdGrid.size)
  /\ LET pos == voxel_at(wdGrid.size, wdPos)
         block == wdGrid.blocks[pos]
     IN  wdSpawned' = IF is_air(block) THEN wdSpawned
                      ELSE Append(wdSpawned,
                                  [mesh |-> wdMeshMap[block].mesh, translation |-> pos])
  /\ wdPos' = wdPos + 1
  /\ UNCHANGED <<wdGrid, wdMeshMap, wdPc>>

\* The loops over the voxels are over.
SetupReturn ==
  /\ UNCHANGED notWorldVars
  /\ wdPc = "voxels"
  /\ wdPos = Volume(wdGrid.size)
  /\ wdPc' = "done"
  /\ UNCHANGED <<wdGrid, wdPos, wdMeshMap, wdSpawned>>

WorldNext ==
  \/ \E block \in WorldBlocks \cup PaletteOnlyBlocks : SetupMesh(block)
  \/ SetupMaterials
  \/ SetupVoxel
  \/ SetupReturn

(***************************************************************************)
(* mesh.rs: one mesh per element, stored about a placement offset.         *)
(* Offsets and stored positions are kept doubled, so that the midpoint of  *)
(* a box with an odd extent stays an integer.                              *)
(***************************************************************************)

\* element_mesh of mesh.rs: the faces as in block.rs, without any rotation
\* of the texture coordinates, and offset = min + (max - min) / 2, doubled.
element_mesh_offset(element, tex_atlas, textures) ==
  [mesh |-> element_mesh(element, tex_atlas, textures, <<0, 0>>),
   offset2 |-> vec_add(element.from, element.to)]

\* The rotations create_mesh_for_block of mesh.rs computes for an element:
\* model_rot = Quat::from_euler(EulerRot::XYZ, -x, -y, 0.0), which is
\* from_rotation_x(-x) * from_rotation_y(-y) * from_rotation_z(0), and
\* elem_rot.
element_rotations(model, element) ==
  [model_rot |-> quat_mul(from_rotation_x(-model.model_rot[1]),
                          from_rotation_y(-model.model_rot[2])),
   elem_rot |-> CASE element.rotation.axis = "X" -> from_rotation_x(element.rotation.angle)
                  [] element.rotation.axis = "Y" -> from_rotation_y(element.rotation.angle)
                  [] OTHER -> from_rotation_z(element.rotation.angle)]

\* The body of the loops of create_mesh_for_block of mesh.rs for one
\* element: the ElementMesh pushed, with its buffers.
element_mesh_of(model, element, tex_atlas) ==
  LET em == element_mesh_offset(element, tex_atlas, model.textures)
      rots == element_rotations(model, element)
      mat == quat_mul(rots.model_rot, rots.elem_rot)
      inverse_transpose_model == mat_transpose(mat_inverse(mat))
  IN  [panic |-> em.mesh.panic,
       positions2 |->
         [k \in 1..Len(em.mesh.positions) |->
            LET p == rot_vert_with_orig(rots.model_rot, <<8, 8, 8>>,
                       rot_vert_with_orig(rots.elem_rot, element.rotation.origin,
                                          em.mesh.positions[k]))
            IN  vec_sub(vec_add(p, p), em.offset2)],
       normals |->
         [k \in 1..Len(em.mesh.normals) |->
            normalize_or_zero(mul_vec3(inverse_transpose_model, em.mesh.normals[k]))],
       uvs |-> em.mesh.uvs,
       indices |-> [k \in 1..Len(em.mesh.indices) |-> em.mesh.indices[k] + 0],
       has_transparency |-> em.mesh.has_transparency,
       offset2 |-> em.offset2]

\* The processed models of mesh.rs have no uv_lock.
ElemModels == {m \in MeshModels : ~m.uv_lock}

ElemIdle ==
  /\ emModels = <<>>
  /\ emM = 0
  /\ emE = 0
  /\ emMeshes = <<>>
  /\ emPc = "idle"

\* create_mesh_for_block of mesh.rs is called for a block that block_models
\* holds.
ElemInit ==
  /\ \E m \in ElemModels, rest \in {<<>>, <<SecondModel>>} : emModels = <<m>> \o rest
  /\ emM = 0
  /\ emE = 0
  /\ emMeshes = <<>>
  /\ emPc = "loop"

\* One turn of the inner loop: the mesh of the element is built, recentred
\* and pushed on meshes.
EmElement ==
  /\ UNCHANGED notElemVars
  /\ emPc = "loop"
  /\ emM < Len(emModels)
  /\ emE < Len(emModels[emM + 1].elements)
  /\ LET model == emModels[emM + 1]
         em == element_mesh_of(model, model.elements[emE + 1], MeshAtlas)
     IN  IF em.panic
           THEN /\ emPc' = "panicked"
                /\ emMeshes' = emMeshes
           ELSE /\ emPc' = "loop"
                /\ emMeshes' = Append(emMeshes, em)
  /\ emE' = emE + 1
  /\ UNCHANGED <<emModels, emM>>

\* The inner loop is over: the outer loop goes to the next model.
EmNextModel ==
  /\ UNCHANGED notElemVars
  /\ emPc = "loop"
  /\ emM < Len(emModels)
  /\ emE = Len(emModels[emM + 1].elements)
  /\ emM' = emM + 1
  /\ emE' = 0
  /\ UNCHANGED <<emModels, emMeshes, emPc>>

\* The outer loop is over: meshes is returned.
EmReturn ==
  /\ UNCHANGED notElemVars
  /\ emPc = "loop"
  /\ emM = Len(emModels)
  /\ emPc' = "done"
  /\ UNCHANGED <<emModels, emM, emE, emMeshes>>

ElemNext ==
  \/ EmElement
  \/ EmNextModel
  \/ EmReturn

(***************************************************************************)
(* create_texture_atlas: from the loaded folder to the mapping             *)
(***************************************************************************)

\* The files of the folder: block textures, and .mcmeta sidecars, each of
\* which names the texture it belongs to (McMetaAsset.texture).
ImageFile(tile) == [kind |-> "Image", path |-> AssetPath(tile), id |-> AssetPath(tile)]
McMetaFile(tile) ==
  [kind |-> "McMeta", path |-> AssetPath(tile) \o <<".mcmeta">>,
   id |-> AssetPath(tile) \o <<".mcmeta">>, texture |-> AssetPath(tile)]
\* The textures of the folder that may have a sidecar.
AnimatedTiles == {"water_still", "lava_still"}

\* The folders: stone or not, and every texture that may be animated
\* absent, present alone, or present with its sidecar; the handles come in
\* any order.
FolderContents ==
  {plain \cup {ImageFile(t) : t \in pick[1]} \cup {McMetaFile(t) : t \in pick[2]} :
     plain \in {{}, {ImageFile("stone")}},
     pick \in {q \in (SUBSET AnimatedTiles) \X (SUBSET AnimatedTiles) : q[2] \subseteq q[1]}}
Orders(c) ==
  {f \in [1..Cardinality(c) -> c] : \A i, j \in 1..Cardinality(c) : f[i] = f[j] => i = j}
Folders == UNION {Orders(c) : c \in FolderContents}

\* The TextureAtlas built from the textures added to the builder, in the
\* order they were added: the layout puts them side by side.
atlas_of(added, mapping) ==
  [present |-> TRUE,
   layout |-> [size |-> <<Len(added), 1>>,
               textures |-> [i \in 1..Len(added) |-> [min |-> <<i - 1, 0>>, max |-> <<i, 1>>]],
               index |-> [id \in {added[i] : i \in 1..Len(added)} |->
                            (CHOOSE i \in 1..Len(added) : added[i] = id) - 1]],
   has_transparency |-> [i \in 1..Len(added) |-> FALSE],
   mapping |-> mapping]

FolderIdle ==
  /\ fdFolder = <<>>
  /\ fdI = 0
  /\ fdAnimated = {}
  /\ fdMapping = <<>>
  /\ fdAdded = <<>>
  /\ fdAtlas = NoTextureAtlas
  /\ fdDetails = Pending
  /\ fdPc = "idle"

\* create_texture_atlas(folder, textures, mc_metas) is called.
FolderInit ==
  /\ fdFolder \in Folders
  /\ fdI = 0
  /\ fdAnimated = {}
  /\ fdMapping = <<>>
  /\ fdAdded = <<>>
  /\ fdAtlas = NoTextureAtlas
  /\ fdDetails = Pending
  /\ fdPc = "metas"

\* One turn of the first loop over folder.handles: the texture of a
\* sidecar goes to animated_textures; any other handle is passed over.
FdMeta ==
  /\ UNCHANGED notFolderVars
  /\ fdPc = "metas"
  /\ fdI < Len(fdFolder)
  /\ LET handle == fdFolder[fdI + 1]
     IN  fdAnimated' = IF handle.kind = "McMeta" THEN fdAnimated \cup {handle.texture}
                       ELSE fdAnimated
  /\ fdI' = fdI + 1
  /\ UNCHANGED <<fdFolder, fdMapping, fdAdded, fdAtlas, fdDetails, fdPc>>

\* The first loop is over: mapping = HashMap::new() and the second loop
\* begins.
FdMetasDone ==
  /\ UNCHANGED notFolderVars
  /\ fdPc = "metas"
  /\ fdI = Len(fdFolder)
  /\ fdI' = 0
  /\ fdPc' = "textures"
  /\ UNCHANGED <<fdFolder, fdAnimated, fdMapping, fdAdded, fdAtlas, fdDetails>>

\* One turn of the second loop: continue for a texture in
\* animated_textures and for a handle that is no image; otherwise
\* mapping.insert(asset_path, id) and add_texture.
FdTexture ==
  /\ UNCHANGED notFolderVars
  /\ fdPc = "textures"
  /\ fdI < Len(fdFolder)
  /\ LET handle == fdFolder[fdI + 1]
     IN  IF handle.id \in fdAnimated \/ handle.kind # "Image"
           THEN UNCHANGED <<fdMapping, fdAdded>>
           ELSE /\ fdMapping' = [p \in DOMAIN fdMapping \cup {handle.path} |->
                                   IF p = handle.path THEN handle.id ELSE fdMapping[p]]
                /\ fdAdded' = Append(fdAdded, handle.id)
  /\ fdI' = fdI + 1
  /\ UNCHANGED <<fdFolder, fdAnimated, fdAtlas, fdDetails, fdPc>>

\* The second loop is over: the atlas is built and returned.  finish()
\* fails on a builder without textures and unwrap panics.
FdFinish ==
  /\ UNCHANGED notFolderVars
  /\ fdPc = "textures"
  /\ fdI = Len(fdFolder)
  /\ IF fdAdded = <<>>
       THEN /\ fdPc' = "panicked"
            /\ fdAtlas' = fdAtlas
       ELSE /\ fdPc' = "built"
            /\ fdAtlas' = atlas_of(fdAdded, fdMapping)
  /\ UNCHANGED <<fdFolder, fdI, fdAnimated, fdMapping, fdAdded, fdDetails>>

\* One call atlas.get_tex_details(texture_name) on the atlas returned.
FdGetTexDetails(texture_name) ==
  /\ UNCHANGED notFolderVars
  /\ fdPc = "built"
  /\ fdDetails = Pending
  /\ fdDetails' = [name |-> texture_name, outcome |-> get_tex_details(fdAtlas, texture_name)]
  /\ UNCHANGED <<fdFolder, fdI, fdAnimated, fdMapping, fdAdded, fdAtlas, fdPc>>

FolderNext ==
  \/ FdMeta
  \/ FdMetasDone
  \/ FdTexture
  \/ FdFinish
  \/ \E t \in {"stone"} \cup AnimatedTiles : FdGetTexDetails(<<"block/", t>>)

(***************************************************************************)
(* BlockMaterials and the choice of a material in init_new_blocks          *)
(***************************************************************************)

\* A StandardMaterial, as far as the code sets it: the colour the texture
\* sample is multiplied with, the texture sampled, the alpha mode.
StandardMaterial(base_color, base_color_texture, alpha_mode) ==
  [base_color |-> base_color, base_color_texture |-> base_color_texture,
   alpha_mode |-> alpha_mode]

\* BlockMaterials::default(), the value before init_block_resources.
NoBlockMaterials == [present |-> FALSE]

\* BlockMaterials::new: base samples the atlas image and blends; opaque and
\* transparent are added to the assets in this order.  A handle is the
\* position of its material in the assets.
block_materials_new(materials, atlas_image) ==
  LET base == StandardMaterial(White, Some(atlas_image), "Blend")
      opaque == StandardMaterial(White, Some(atlas_image), "Mask(0.5)")
  IN  [materials |-> materials \o <<opaque, base>>,
       mats |-> [present |-> TRUE, base |-> base, opaque |-> Len(materials) + 1,
                 transparent |-> Len(materials) + 2, tints |-> <<>>]]

\* get_or_add_tint with a material that samples no texture.
get_or_add_tint_untextured(mats, tint, materials) ==
  IF tint \in DOMAIN mats.tints
    THEN [materials |-> materials, mats |-> mats, handle |-> mats.tints[tint]]
    ELSE [materials |-> Append(materials, StandardMaterial(tint, None, mats.base.alpha_mode)),
          mats |-> [mats EXCEPT !.tints = @ @@ (tint :> Len(materials) + 1)],
          handle |-> Len(materials) + 1]

\* BlockMaterials::get_or_add_tint.  The key linear_rgba.as_u32() tells the
\* colours that occur apart, so the colour itself is the key.
get_or_add_tint(mats, tint, materials) ==
  IF tint \in DOMAIN mats.tints
    THEN [materials |-> materials, mats |-> mats, handle |-> mats.tints[tint]]
    ELSE [materials |-> Append(materials, [mats.base EXCEPT !.base_color = tint]),
          mats |-> [mats EXCEPT !.tints = @ @@ (tint :> Len(materials) + 1)],
          handle |-> Len(materials) + 1]

\* The choice of init_new_blocks with the transparency flag looked at
\* first.
choose_material_flag_first(mats, tint, has_transparency, materials) ==
  IF has_transparency
    THEN [materials |-> materials, mats |-> mats, handle |-> mats.transparent]
  ELSE IF tint.some THEN get_or_add_tint(mats, tint.value, materials)
  ELSE [materials |-> materials, mats |-> mats, handle |-> mats.opaque]

\* let material = if let Some(tint) = tint { .. } else { .. } of
\* init_new_blocks.
choose_material(mats, tint, has_transparency, materials) ==
  IF tint.some THEN get_or_add_tint(mats, tint.value, materials)
  ELSE IF has_transparency
    THEN [materials |-> materials, mats |-> mats, handle |-> mats.transparent]
  ELSE [materials |-> materials, mats |-> mats, handle |-> mats.opaque]

\* The tints of the block-states: none, or that of a redstone wire.
BlockTints ==
  {None} \cup {Some(get_tint_for_block(<<"minecraft:redstone_wire">>,
                                       (<<"power">> :> <<p>>), 0)) : p \in {"0", "9"}}

MatIdle ==
  /\ mtAssets = <<>>
  /\ mtMats = NoBlockMaterials
  /\ mtBlocks = <<>>

\* The application starts: no material has been added.
MatInit ==
  /\ mtAssets = <<>>
  /\ mtMats = NoBlockMaterials
  /\ mtBlocks = <<>>

\* init_block_resources, on entering the Finished state.
InitBlockResources ==
  /\ UNCHANGED notMatVars
  /\ ~mtMats.present
  /\ LET new == block_materials_new(mtAssets, "atlas.image")
     IN  /\ mtAssets' = new.materials
         /\ mtMats' = new.mats
  /\ UNCHANGED mtBlocks

\* One turn of the loop of init_new_blocks from the mesh and tint found
\* for the block on: the material is chosen and put into the entity.
InitNewBlockMaterial(tint, has_transparency) ==
  /\ UNCHANGED notMatVars
  /\ mtMats.present
  /\ Len(mtBlocks) < MaxEntities
  /\ LET chosen == choose_material(mtMats, tint, has_transparency, mtAssets)
     IN  /\ mtAssets' = chosen.materials
         /\ mtMats' = chosen.mats
         /\ mtBlocks' = Append(mtBlocks, [tint |-> tint, has_transparency |-> has_transparency,
                                          material |-> chosen.handle])

MatNext ==
  \/ InitBlockResources
  \/ \E tint \in BlockTints, has_transparency \in BOOLEAN :
       InitNewBlockMaterial(tint, has_transparency)

(***************************************************************************)
(* Specifications: one per part of the program, the other parts at rest    *)
(***************************************************************************)
LaterIdle == TintIdle /\ AtlasIdle /\ MeshIdle /\ ScanIdle /\ WorldIdle /\ ElemIdle /\ FolderIdle /\ MatIdle

PaletteStart == PaletteInit /\ AppInit /\ ResolveIdle /\ PmIdle /\ TexIdle /\ LaterIdle
PaletteSpec == PaletteStart /\ [][PaletteNext]_vars

AppStart == PaletteInit /\ AppInit /\ ResolveIdle /\ PmIdle /\ TexIdle /\ LaterIdle
AppSpec == AppStart /\ [][AppNext]_vars

ResolveStart == PaletteInit /\ AppInit /\ ResolveInit /\ PmIdle /\ TexIdle /\ LaterIdle
ResolveSpec == ResolveStart /\ [][ResolveNext]_vars

\* The code runs on one thread and does not stop by itself: while a step
\* can be taken, one is taken.
TexturesStart == PaletteInit /\ AppInit /\ ResolveIdle /\ PmIdle /\ TexInit /\ LaterIdle
TexturesSpec == TexturesStart /\ [][TexNext]_vars /\ WF_vars(TexNext)

ProcessStart == PaletteInit /\ AppInit /\ ResolveIdle /\ PmInit /\ TexIdle /\ LaterIdle
ProcessSpec == ProcessStart /\ [][PmNext]_vars

ParseStart == PaletteInit /\ AppInit /\ ParseInit /\ PmIdle /\ TexIdle /\ LaterIdle
ParseSpec == ParseStart /\ [][ResolveNext]_vars

TintStart == PaletteInit /\ AppInit /\ ResolveIdle /\ PmIdle /\ TexIdle /\ TintInit
             /\ AtlasIdle /\ MeshIdle /\ ScanIdle /\ WorldIdle /\ ElemIdle /\ FolderIdle /\ MatIdle
TintSpec == TintStart /\ [][TintNext]_vars

MeshStart == PaletteInit /\ AppInit /\ ResolveIdle /\ PmIdle /\ TexIdle /\ TintIdle
             /\ AtlasIdle /\ MeshInit /\ ScanIdle /\ WorldIdle /\ ElemIdle /\ FolderIdle /\ MatIdle
MeshSpec == MeshStart /\ [][MeshNext]_vars

AtlasStart == PaletteInit /\ AppInit /\ ResolveIdle /\ PmIdle /\ TexIdle /\ TintIdle
              /\ AtlasInit /\ MeshIdle /\ ScanIdle /\ WorldIdle /\ ElemIdle /\ FolderIdle /\ MatIdle
AtlasSpec == AtlasStart /\ [][AtlasNext]_vars

ScanStart == PaletteInit /\ AppInit /\ ResolveIdle /\ PmIdle /\ TexIdle /\ TintIdle
             /\ AtlasIdle /\ MeshIdle /\ ScanInit /\ WorldIdle /\ ElemIdle /\ FolderIdle /\ MatIdle
ScanSpec == ScanStart /\ [][ScanNext]_vars

WorldStart == PaletteInit /\ AppInit /\ ResolveIdle /\ PmIdle /\ TexIdle /\ TintIdle
              /\ AtlasIdle /\ MeshIdle /\ ScanIdle /\ WorldInit /\ ElemIdle /\ FolderIdle /\ MatIdle
WorldSpec == WorldStart /\ [][WorldNext]_vars

ElemStart == PaletteInit /\ AppInit /\ ResolveIdle /\ PmIdle /\ TexIdle /\ TintIdle
             /\ AtlasIdle /\ MeshIdle /\ ScanIdle /\ WorldIdle /\ ElemInit /\ FolderIdle /\ MatIdle
ElemSpec == ElemStart /\ [][ElemNext]_vars

FolderStart == PaletteInit /\ AppInit /\ ResolveIdle /\ PmIdle /\ TexIdle /\ TintIdle
               /\ AtlasIdle /\ MeshIdle /\ ScanIdle /\ WorldIdle /\ ElemIdle /\ FolderInit /\ MatIdle
FolderSpec == FolderStart /\ [][FolderNext]_vars

MatStart == PaletteInit /\ AppInit /\ ResolveIdle /\ PmIdle /\ TexIdle /\ TintIdle
            /\ AtlasIdle /\ MeshIdle /\ ScanIdle /\ WorldIdle /\ ElemIdle /\ FolderIdle
            /\ MatInit
MatSpec == MatStart /\ [][MatNext]_vars

(***************************************************************************)
(* Palette claims                                                          *)
(***************************************************************************)
RECURSIVE FirstSeen(_)
\* The distinct names other than air of a call history, in first-call order.
FirstSeen(log) ==
  IF log = <<>> THEN <<>>
  ELSE LET front == FirstSeen(SubSeq(log, 1, Len(log) - 1))
           name == log[Len(log)].name
       IN  IF name = Air \/ \E k \in 1..Len(front) : front[k] = name
             THEN front
             ELSE Append(front, name)

\* C1: from a default palette, the k-th distinct name other than air that
\* get_or_add sees receives index k (the first receives 1), so indices are
\* distinct and increase in first-seen order, and no index ever goes to two
\* names.
C1_KthDistinctNameGetsK ==
  LET order == FirstSeen(calls)
  IN  /\ \A i \in 1..Len(calls) :
           calls[i].name # Air =>
             \E k \in 1..Len(order) : order[k] = calls[i].name /\ calls[i].idx = k
      /\ \A k \in 1..Len(order) : map[order[k]] = k
      /\ \A i, j \in 1..Len(calls) :
           calls[i].idx = calls[j].idx => calls[i].name = calls[j].name

\* Three distinct names were added, one of them asked for again at the end.
C1_Witness ==
  /\ Len(calls) = 4
  /\ Len(FirstSeen(calls)) = 3
  /\ calls[4].name = calls[1].name
  /\ calls[3].idx = 3

\* C2: get_or_add of a name the palette already holds returns the index of
\* the name's first call (0 for air) and changes neither blocks nor map.
C2_KnownNameSameIndexNoChange ==
  [][ (Len(calls') = Len(calls) + 1 /\ calls'[Len(calls')].name \in DOMAIN map) =>
        LET c == calls'[Len(calls')]
        IN  /\ blocks' = blocks
            /\ map' = map
            /\ c.name = Air => c.idx = 0
            /\ \A i \in 1..Len(calls) : calls[i].name = c.name => c.idx = calls[i].idx
    ]_vars

\* A name is asked for again after two other names were added in between.
C2_Witness ==
  /\ Len(calls) = 4
  /\ calls[1].name = calls[4].name
  /\ calls[1].idx = calls[4].idx
  /\ calls[1].idx = 1
  /\ calls[2].idx = 2
  /\ calls[3].idx = 3
  /\ Len(blocks) = 4

\* C3: map and blocks are inverse to each other, blocks holds no string
\* twice, has as many entries as map has keys, and air sits at index 0.
C3_PaletteBijection ==
  /\ \A s \in DOMAIN map : map[s] \in 0..(Len(blocks) - 1) /\ blocks[map[s] + 1] = s
  /\ \A i \in 0..(Len(blocks) - 1) : blocks[i + 1] \in DOMAIN map /\ map[blocks[i + 1]] = i
  /\ \A i, j \in 1..Len(blocks) : blocks[i] = blocks[j] => i = j
  /\ Len(blocks) = Cardinality(DOMAIN map)
  /\ blocks[1] = Air
  /\ map[Air] = 0

\* A palette of three names, reached with a call for air on the way.
C3_Witness ==
  /\ Len(blocks) = 3
  /\ Len(calls) = 4
  /\ \E i \in 1..Len(calls) : calls[i].name = Air

(***************************************************************************)
(* Mesh cache and texture loading claims                                   *)
(***************************************************************************)

\* C4: create_mesh_for_block runs at most once per palette index: only
\* when BlockResources.meshes has no entry for the index, and the mesh it
\* returns is stored under the index, so that every entity handled later,
\* in the same run or a later one, is given the stored handle.
C4_MeshBuiltOncePerIndex ==
  /\ \A idx \in PaletteIndices :
       /\ meshCalls[idx] <= 1
       /\ meshCalls[idx] = 1 <=> idx \in DOMAIN resMeshes
  /\ meshAssets = Cardinality(DOMAIN resMeshes)
  /\ \A i \in 1..Len(entities) :
       ~entities[i].added =>
         /\ entities[i].block \in DOMAIN resMeshes
         /\ entities[i].mesh = resMeshes[entities[i].block]

\* Three entities were handled in two runs of init_new_blocks; the two
\* that share an index share the one mesh built for it.
C4_Witness ==
  /\ Len(entities) = 3
  /\ \A i \in 1..3 : ~entities[i].added
  /\ entities[1].block = entities[3].block
  /\ entities[1].block # entities[2].block
  /\ entities[1].mesh = 1
  /\ entities[2].mesh = 2
  /\ entities[3].mesh = 1
  /\ meshCalls[entities[1].block] = 1
  /\ meshAssets = 2

PredicateAccepts(when, key) ==
  \A p \in DOMAIN key.props : <<p>> \in DOMAIN when => <<key.props[p]>> \in when[<<p>>]

RECURSIVE FirstCandidates(_, _)
\* The first candidate of every case flagged as applying, in case order.
FirstCandidates(cases, applied) ==
  IF cases = <<>> THEN <<>>
  ELSE (IF Head(applied) THEN <<Head(cases).apply[1]>> ELSE <<>>)
         \o FirstCandidates(Tail(cases), Tail(applied))

\* C7: get_block_model returns one model per applying case, the first of
\* the case's candidates, in the declared order of the cases, and nothing
\* for the other cases: all applying cases contribute.
C7_FirstCandidateOfEveryApplyingCase ==
  rsResult.kind = "Ok" =>
    /\ Len(rsResult.applied) = Len(rsStates.cases)
    /\ rsResult.models = FirstCandidates(rsStates.cases, rsResult.applied)

\* Two cases apply, the second with two candidates: both contribute.
C7_Witness ==
  /\ rsResult.kind = "Ok"
  /\ Len(rsStates.cases) = 2
  /\ rsResult.applied = <<TRUE, TRUE>>
  /\ rsStates.cases[1].apply = <<DotModel>>
  /\ rsStates.cases[2].apply = <<SideModel, SideAltModel>>
  /\ rsResult.models = <<DotModel, SideModel>>

(***************************************************************************)
(* Texture resolution claims                                               *)
(***************************************************************************)
Literals == {"block/stone", "block/dirt"}
RefName(v) == CHOOSE n \in TexVars : v = IF n = "a" THEN "#a" ELSE IF n = "b" THEN "#b" ELSE "#c"

RECURSIVE ChainEnd(_, _, _)
\* The literal at the end of the reference chain that starts at value v,
\* or "none" when the chain leaves the table or is longer than fuel.
ChainEnd(t, v, fuel) ==
  IF v \in Literals THEN v
  ELSE IF fuel = 0 \/ RefName(v) \notin DOMAIN t THEN "none"
  ELSE ChainEnd(t, t[RefName(v)], fuel - 1)

\* Every reference chain of the table ends at a literal path.
AllChainsEnd(t) == \A n \in DOMAIN t : ChainEnd(t, t[n], Cardinality(DOMAIN t)) \in Literals

\* Every reference of the table names a variable of the table, and some
\* chain never reaches a literal: it loops.
LoopingTable(t) ==
  /\ \A n \in DOMAIN t : t[n] \in Literals \/ RefName(t[n]) \in DOMAIN t
  /\ ~AllChainsEnd(t)

\* C8: for a table whose reference chains all end at a literal,
\* resolve_textures_completely does not fail and returns a table with the
\* same names, each mapped to the literal at the end of its chain, so that
\* no value starts with '#'.
C8_ChainsResolveToLiterals ==
  AllChainsEnd(txTable) =>
    /\ txPc # "panicked"
    /\ txPc = "done" =>
         /\ DOMAIN txResolved = DOMAIN txTable
         /\ \A n \in DOMAIN txTable :
              /\ txResolved[n] = ChainEnd(txTable, txTable[n], Cardinality(DOMAIN txTable))
              /\ txResolved[n] \in Literals

\* a = #b, b = #c, c = block/stone has been resolved.
C8_Witness ==
  /\ txPc = "done"
  /\ txTable = [a |-> "#b", b |-> "#c", c |-> "block/stone"]
  /\ txResolved = [a |-> "block/stone", b |-> "block/stone", c |-> "block/stone"]

\* C9: on a table with a self-referential or looping reference chain,
\* resolve_textures_completely terminates, failing with a CycleError.
C9_LoopFailsWithCycleError ==
  (txPc = "for" /\ LoopingTable(txTable)) ~> (txPc = "CycleError")

(***************************************************************************)
(* Model merging claims                                                    *)
(***************************************************************************)

\* The value of variable n in the most derived model of the chain that
\* defines it (the chain starts with the requested model).
DefinesVar(model, n) == model.textures.some /\ n \in DOMAIN model.textures.value
MostDerivedValue(chain, n) ==
  LET i == CHOOSE k \in 1..Len(chain) :
             DefinesVar(chain[k], n) /\ \A j \in 1..(k - 1) : ~DefinesVar(chain[j], n)
  IN  chain[i].textures.value[n]

RECURSIVE AncestorsFirst(_)
\* The element lists of the chain, topmost ancestor first, one after another.
AncestorsFirst(chain) ==
  IF chain = <<>> THEN <<>>
  ELSE AncestorsFirst(Tail(chain))
         \o (IF Head(chain).elements.some THEN Head(chain).elements.value ELSE <<>>)

\* C10: after the merge of a parent chain the table holds, for every
\* variable, the value of the most derived model that defines it, and the
\* element list is the chain's element lists, ancestors first, not
\* deduplicated.
C10_DerivedModelWins ==
  (pmPc = "merge" /\ pmPos = Len(pmChain)) =>
    /\ DOMAIN pmTextures = {n \in {"a", "b"} : \E k \in 1..Len(pmChain) : DefinesVar(pmChain[k], n)}
    /\ \A n \in DOMAIN pmTextures : pmTextures[n] = MostDerivedValue(pmChain, n)
    /\ pmElements = AncestorsFirst(pmChain)

(***************************************************************************)
(* C12: the tint curve of redstone wire                                    *)
(***************************************************************************)

\* get_tint_for_block has been called for redstone wire, tint index 0, with
\* the power property written as the number p.
TintedWireAt(p) ==
  /\ tnResult.kind = "Ok"
  /\ tnName = Wire
  /\ tnIdx = 0
  /\ <<"power">> \in DOMAIN tnProps
  /\ tnProps[<<"power">>] = <<ToString(p)>>

\* clamp(n / d, 0, 1) as a numerator over TintDenominator, for d dividing
\* TintDenominator.
ClampedOverDenominator(n, d) ==
  LET scaled == n * (TintDenominator \div d)
  IN  IF scaled < 0 THEN 0 ELSE IF scaled > TintDenominator THEN TintDenominator ELSE scaled

\* C12: for redstone wire with power p in 0..15 and f = p/15 the tint is
\* red = 0.6 f + (0.4 if f > 0 else 0.3), green = clamp(0.7 f^2 - 0.5, 0, 1),
\* blue = clamp(0.6 f^2 - 0.7, 0, 1); power 0 gives (0.3, 0, 0), power 15
\* gives (1.0, 0.2, 0), and blue is 0 for every p.
C12_RedstoneTintCurve ==
  \A p \in 0..15 :
    TintedWireAt(p) =>
      LET c == tnResult.color
      IN  \* 0.6 * p / 15 + 0.4 = (6 p + 60) / 150 ; with 0.3: (6 p + 45) / 150
          /\ 150 * c.r = TintDenominator * (6 * p + (IF p > 0 THEN 60 ELSE 45))
          \* 0.7 * (p / 15)^2 - 0.5 = (7 p^2 - 1125) / 2250
          /\ c.g = ClampedOverDenominator(7 * p * p - 1125, 2250)
          \* 0.6 * (p / 15)^2 - 0.7 = (6 p^2 - 1575) / 2250
          /\ c.b = ClampedOverDenominator(6 * p * p - 1575, 2250)
          /\ c.b = 0
          /\ (p = 0 => 10 * c.r = 3 * TintDenominator /\ c.g = 0)
          /\ (p = 15 => c.r = TintDenominator /\ 10 * c.g = 2 * TintDenominator)

\* The tint of fully powered wire has been computed: (1.0, 0.2, 0).
C12_Witness ==
  /\ TintedWireAt(15)
  /\ tnResult.color = [r |-> TintDenominator, g |-> TintDenominator \div 5, b |-> 0]

(***************************************************************************)
(* C20: how get_block_model reads a block-state string                     *)
(***************************************************************************)

\* The position of the first '[' of a string, 0 if it has none.
FirstBracket(str) ==
  IF \E i \in 1..Len(str) : str[i] = "["
    THEN CHOOSE i \in 1..Len(str) : str[i] = "[" /\ \A j \in 1..(i - 1) : str[j] # "["
    ELSE 0

\* The text after the first '[' without the ']' it ends with.
BracketText(str) ==
  LET open == FirstBracket(str)
      last == IF \E i \in (open + 1)..Len(str) : str[i] # "]"
                THEN CHOOSE i \in (open + 1)..Len(str) :
                       str[i] # "]" /\ \A j \in (i + 1)..Len(str) : str[j] = "]"
                ELSE open
  IN  IF open = 0 THEN <<>> ELSE SubSeq(str, open + 1, last)

\* The stretches <<a, b>> of a text that lie between two neighbouring
\* commas (or an end of the text): the text from a + 1 to b - 1.
CommaStretches(text) ==
  LET marks == {0, Len(text) + 1} \cup {i \in 1..Len(text) : text[i] = ","}
  IN  {ab \in marks \X marks :
         ab[1] < ab[2] /\ \A c \in marks : ~(ab[1] < c /\ c < ab[2])}

\* The position of the first '=' of a stretch, 0 if it has none.
FirstEquals(text, ab) ==
  IF \E i \in (ab[1] + 1)..(ab[2] - 1) : text[i] = "="
    THEN CHOOSE i \in (ab[1] + 1)..(ab[2] - 1) :
           text[i] = "=" /\ \A j \in (ab[1] + 1)..(i - 1) : text[j] # "="
    ELSE 0

PairKey(text, ab) == SubSeq(text, ab[1] + 1, FirstEquals(text, ab) - 1)
PairValue(text, ab) == SubSeq(text, FirstEquals(text, ab) + 1, ab[2] - 1)

\* The property map a text of key=value pairs stands for: a key written
\* twice keeps its last value.
PairsRead(text, props) ==
  LET stretches == IF text = <<>> THEN {} ELSE CommaStretches(text)
  IN  /\ DOMAIN props = {PairKey(text, ab) : ab \in stretches}
      /\ \A ab \in stretches :
           (\A cd \in stretches : PairKey(text, cd) = PairKey(text, ab) => cd[2] <= ab[2])
             => props[PairKey(text, ab)] = PairValue(text, ab)

\* C20: get_block_model splits the string at its first '[' into the base
\* name and the property text, strips the trailing ']' and splits the text
\* on ',' into key=value pairs; without '[' or with empty brackets the name
\* is the whole name and the map is empty; a pair without '=' is a fatal
\* error, not a pair that is skipped.
C20_ParsesBlockStateString ==
  (rsResult # Pending /\ rsStates.found) =>
    LET open == FirstBracket(rsBlock)
        text == BracketText(rsBlock)
        malformed == text # <<>> /\ \E ab \in CommaStretches(text) : FirstEquals(text, ab) = 0
    IN  IF malformed THEN rsResult.kind = "Panic"
        ELSE /\ rsResult.kind = "Ok"
             /\ rsResult.name = IF open = 0 THEN rsBlock ELSE SubSeq(rsBlock, 1, open - 1)
             /\ PairsRead(text, rsResult.props)
             /\ (text = <<>> => rsResult.props = <<>>)

\* A string with two pairs between its brackets has been read.
C20_Witness ==
  /\ rsBlock = Stone \o <<"[", "k", "=", "v", ",", "j", "=", "w", "]">>
  /\ rsResult.kind = "Ok"
  /\ rsResult.name = Stone
  /\ rsResult.props = (<<"k">> :> <<"v">>) @@ (<<"j">> :> <<"w">>)

(***************************************************************************)
(* C11: the transparency flags of the atlas tiles                          *)
(***************************************************************************)

\* The alpha values of the pixels inside the rectangle of the i-th tile.
TileAlphas(i) ==
  LET rect == atTiles[i].rect
  IN  {atImage[<<x, y>>] : x \in rect.min[1]..(rect.max[1] - 1),
                           y \in rect.min[2]..(rect.max[2] - 1)}

PackedAs(texture_name) ==
  {i \in 1..Len(atTiles) : atTiles[i].path = AssetPath(texture_name[Len(texture_name)])}

\* The fraction <<n, d>> is the quotient of a by b.
IsQuotient(frac, a, b) == frac[2] # 0 /\ b # 0 /\ frac[1] * b = a * frac[2]

\* C18: get_tex_details fails fatally for a name that was never packed and
\* then returns no rectangle and no flag; for a packed name it returns the
\* rectangle of that tile divided by the atlas size and the flag of that
\* tile.
C18_DetailsOfPackedNamesOnly ==
  atDetails # Pending =>
    LET out == atDetails.outcome
        tiles == PackedAs(atDetails.name)
    IN  IF tiles = {}
          THEN out.kind = "Panic" /\ DOMAIN out = {"kind", "why"}
          ELSE /\ out.kind = "Ok"
               /\ \A i \in tiles :
                    /\ \A c \in 1..2 :
                         /\ IsQuotient(out.rect.min[c], atTiles[i].rect.min[c], atSize[c])
                         /\ IsQuotient(out.rect.max[c], atTiles[i].rect.max[c], atSize[c])
                    /\ out.has_transparency = atFlags[i]

\* The details of the second tile, flagged transparent and not at the
\* corner of the image, have been returned under a prefixed name.
C18_Witness ==
  /\ atDetails # Pending
  /\ atDetails.name = <<"minecraft:", "block/", "glass">>
  /\ atDetails.outcome.kind = "Ok"
  /\ atDetails.outcome.has_transparency
  /\ atDetails.outcome.rect.min # <<<<0, AtlasSide>>, <<0, AtlasSide>>>>
  /\ PackedAs(atDetails.name) = {2}

(***************************************************************************)
(* C14: the rotation of an element about its origin                        *)
(***************************************************************************)

\* A displacement turned by a multiple of 90 degrees about an axis, counter-
\* clockwise for one who looks down the axis towards the origin.
Turned(axis, angle, d) ==
  LET quarter == (angle \div 90) % 4
      once(v) == CASE axis = "X" -> <<v[1], -v[3], v[2]>>
                   [] axis = "Y" -> <<v[3], v[2], -v[1]>>
                   [] OTHER -> <<-v[2], v[1], v[3]>>
  IN  CASE quarter = 0 -> d
        [] quarter = 1 -> once(d)
        [] quarter = 2 -> once(once(d))
        [] OTHER -> once(once(once(d)))

\* A vertex turned about the origin of a rotation.
TurnedAbout(rotation, vert) ==
  LET d == Turned(rotation.axis, rotation.angle,
                  <<vert[1] - rotation.origin[1], vert[2] - rotation.origin[2],
                    vert[3] - rotation.origin[3]>>)
  IN  <<d[1] + rotation.origin[1], d[2] + rotation.origin[2], d[3] + rotation.origin[3]>>

\* The element-local vertices of an element, in the order they are emitted.
LocalVertices(model, element) ==
  element_mesh(element, MeshAtlas, model.textures, <<0, 0>>).positions

RECURSIVE TurnedVertices(_, _)
\* The vertices of the elements of a model from the i-th on, each turned
\* about the origin its element declares.
TurnedVertices(model, i) ==
  IF i > Len(model.elements) THEN <<>>
  ELSE LET element == model.elements[i]
           local == LocalVertices(model, element)
       IN  [k \in 1..Len(local) |-> TurnedAbout(element.rotation, local[k])]
             \o TurnedVertices(model, i + 1)

\* A block of one model that is not rotated as a whole has been meshed.
MeshedUnrotatedModel ==
  /\ msResult.kind = "Ok"
  /\ msModels.models[1].model_rot = <<0, 0>>

\* C14: every vertex of an element is rotated about the origin the element
\* declares, by its declared angle, around its declared axis, and a vertex
\* at the origin stays where it is; 90 degrees about Y at (8,8,8) takes the
\* local vertex (0,8,8) to (8,8,16).
C14_ElementRotatedAboutOrigin ==
  /\ TurnedAbout(RotY90, <<0, 8, 8>>) = <<8, 8, 16>>
  /\ MeshedUnrotatedModel =>
       LET model == msModels.models[1]
           expected == TurnedVertices(model, 1)
       IN  /\ SubSeq(msResult.mesh.positions, 1, Len(expected)) = expected
           /\ Len(msResult.mesh.positions) >= Len(expected)
           /\ \A i \in 1..Len(model.elements) :
                rot_vert_with_orig(
                  CASE model.elements[i].rotation.axis = "X" ->
                         from_rotation_x(model.elements[i].rotation.angle)
                    [] model.elements[i].rotation.axis = "Y" ->
                         from_rotation_y(model.elements[i].rotation.angle)
                    [] OTHER -> from_rotation_z(model.elements[i].rotation.angle),
                  model.elements[i].rotation.origin,
                  model.elements[i].rotation.origin) = model.elements[i].rotation.origin

\* The slab from (0,8,8) to (16,9,10), rotated 90 degrees about Y at
\* (8,8,8), has been meshed: its corner (0,8,8) lies at (8,8,16).
C14_Witness ==
  /\ MeshedUnrotatedModel
  /\ msModels.models[1].elements # <<>>
  /\ msModels.models[1].elements[1] = Element(SlabBox, AllFaces, RotY90)
  /\ \E k \in 1..Len(msResult.mesh.positions) :
       /\ LocalVertices(msModels.models[1], msModels.models[1].elements[1])[k] = <<0, 8, 8>>
       /\ msResult.mesh.positions[k] = <<8, 8, 16>>

(***************************************************************************)
(* Meshes as the claims describe them                                      *)
(***************************************************************************)

\* The faces of an element that are present and whose texture resolves,
\* in the order of FaceOrder.
EmittedFaces(model, element) ==
  SelectSeq(FaceOrder,
            LAMBDA f : /\ f \in DOMAIN element.faces
                       /\ texture_resolve(element.faces[f].texture, model.textures).some)

\* The corner of a face in its own texture, before any rotation: the
\* corner of the unit square, or of the uv rectangle the face declares.
PlainUV(face, corner) ==
  IF face.uv.some
    THEN <<IF corner[1] = 0 THEN face.uv.value[1] ELSE face.uv.value[3],
           IF corner[2] = 0 THEN face.uv.value[2] ELSE face.uv.value[4]>>
    ELSE corner

\* What is known of the four vertices of the face f of an element of the
\* n-th model.
FaceVertices(model, n, element, f) ==
  LET face == element.faces[f]
      details == get_tex_details(MeshAtlas, texture_resolve(face.texture, model.textures).value)
      corners == FaceArgs(f, element.from, element.to).positions
  IN  [k \in 1..4 |->
         [model |-> n, face |-> f, vertical |-> f \in {"Up", "Down"},
          rect |-> details.rect, transparent |-> details.has_transparency,
          corner |-> corners[k][1], rotation |-> element.rotation,
          plain |-> PlainUV(face, corners[k][2])]]

RECURSIVE ElementVertices(_, _, _, _)
\* The vertices of the emitted faces of an element, from the i-th face on.
ElementVertices(model, n, element, i) ==
  LET faces == EmittedFaces(model, element)
  IN  IF i > Len(faces) THEN <<>>
      ELSE FaceVertices(model, n, element, faces[i])
             \o ElementVertices(model, n, element, i + 1)

RECURSIVE ModelVertices(_, _, _)
\* The vertices of the elements of the n-th model, from the i-th element on.
ModelVertices(models, n, i) ==
  IF i > Len(models[n].elements) THEN <<>>
  ELSE ElementVertices(models[n], n, models[n].elements[i], 1)
         \o ModelVertices(models, n, i + 1)

RECURSIVE BlockVertices(_, _)
\* The vertices of the models of a block, from the n-th model on.
BlockVertices(models, n) ==
  IF n > Len(models) THEN <<>>
  ELSE ModelVertices(models, n, 1) \o BlockVertices(models, n + 1)

RECURSIVE MeshOfModel(_, _, _)
\* The buffers after the elements of a model from the i-th on.
MeshOfModel(m, model, i) ==
  IF i > Len(model.elements) THEN m
  ELSE MeshOfModel(mesh_element(m, model, model.elements[i], MeshAtlas), model, i + 1)

RECURSIVE MeshOfModels(_, _, _)
\* The buffers after the models of a block from the n-th on.
MeshOfModels(m, models, n) ==
  IF n > Len(models) THEN m
  ELSE MeshOfModels(MeshOfModel(m, models[n], 1), models, n + 1)

(***************************************************************************)
(* C13: uv-lock                                                            *)
(***************************************************************************)

\* A texture coordinate (in sixteenths) turned about the centre (8, 8)
\* against a model rotation of the given angle.
CounterTurnedUV(uv, angle) ==
  LET d == Turned("Y", -angle, <<uv[1] - 8, 0, uv[2] - 8>>)
  IN  <<d[1] + 8, d[3] + 8>>

\* C13: with uv-lock and a model Y rotation of 90 degrees the texture
\* coordinates of an Up or Down face are those without uv-lock turned back
\* by 90 degrees about (0.5, 0.5), while positions, normals and indices are
\* those without uv-lock; Up and Down faces take the Y rotation of the
\* model, the four side faces its X rotation; without uv-lock the texture
\* coordinates are not rotated.
C13_UvLockTurnsOnlyTextureCoordinates ==
  /\ \A u, v \in {0, 16} : CounterTurnedUV(<<u, v>>, 90) = <<16 - v, u>>
  /\ msResult.kind = "Ok" =>
       LET models == msModels.models
           unlocked == MeshOfModels(EmptyMesh,
                                    [n \in 1..Len(models) |->
                                       [models[n] EXCEPT !.uv_lock = FALSE]], 1)
           vertices == BlockVertices(models, 1)
       IN  /\ msResult.mesh.positions = unlocked.positions
           /\ msResult.mesh.normals = unlocked.normals
           /\ msResult.mesh.indices = unlocked.indices
           /\ Len(msResult.mesh.uvs) = Len(vertices)
           /\ Len(unlocked.uvs) = Len(vertices)
           /\ \A k \in 1..Len(vertices) :
                LET vertex == vertices[k]
                    model == models[vertex.model]
                    angle == IF ~model.uv_lock THEN 0
                             ELSE IF vertex.vertical THEN model.model_rot[2]
                             ELSE model.model_rot[1]
                    turned == CounterTurnedUV(vertex.plain, angle)
                IN  /\ unlocked.face_uvs[k] = vertex.plain
                    /\ unlocked.uvs[k] = get_atlas_uvs(vertex.rect, vertex.plain[1],
                                                       vertex.plain[2])
                    /\ msMesh.face_uvs[k] = turned
                    /\ msResult.mesh.uvs[k] = get_atlas_uvs(vertex.rect, turned[1], turned[2])

\* A cube of a model with uv-lock, turned 90 degrees about Y and not about
\* X, has been meshed: the first corner of its Up face has the texture
\* coordinate (1, 1) in place of (1, 0), and its East face keeps its own.
C13_Witness ==
  /\ msResult.kind = "Ok"
  /\ msModels.models[1].uv_lock
  /\ msModels.models[1].model_rot = <<0, 90>>
  /\ msModels.models[1].elements # <<>>
  /\ msModels.models[1].elements[1] = Element(CubeBox, AllFaces, NoRot)
  /\ msMesh.face_uvs[1] = <<16, 16>>
  /\ BlockVertices(msModels.models, 1)[1].plain = <<16, 0>>
  /\ BlockVertices(msModels.models, 1)[9].face = "East"
  /\ msMesh.face_uvs[9] = BlockVertices(msModels.models, 1)[9].plain

(***************************************************************************)
(* C17: a face whose texture variable does not resolve                     *)
(***************************************************************************)

\* The faces of the models of a block that are present and whose texture
\* does not resolve.
UnresolvedFaces(models) ==
  {<<n, i, f>> \in (1..Len(models)) \X (1..MaxElements) \X {"Up", "Down", "East", "West", "South", "North"} :
     /\ i <= Len(models[n].elements)
     /\ f \in DOMAIN models[n].elements[i].faces
     /\ ~texture_resolve(models[n].elements[i].faces[f].texture, models[n].textures).some}

\* Every texture a face of the models resolves to is packed in the atlas.
ResolvedArePacked(models) ==
  \A n \in 1..Len(models) : \A i \in 1..Len(models[n].elements) :
    \A f \in DOMAIN models[n].elements[i].faces :
      LET found == texture_resolve(models[n].elements[i].faces[f].texture, models[n].textures)
      IN  found.some => get_tex_details(MeshAtlas, found.value).kind = "Ok"

\* C17: a face whose texture variable does not resolve adds no position,
\* normal, texture coordinate or index and leaves has_transparency alone;
\* every other present face of the element and all faces of later elements
\* are emitted, and meshing is never aborted for it.
C17_UnresolvedFaceIsSkipped ==
  /\ ResolvedArePacked(msModels.models) => msPc # "panicked"
  /\ msResult.kind = "Ok" =>
       LET vertices == BlockVertices(msModels.models, 1)
           mesh == msResult.mesh
       IN  /\ Len(mesh.positions) = Len(vertices)
           /\ Len(mesh.normals) = Len(vertices)
           /\ Len(mesh.uvs) = Len(vertices)
           /\ 4 * Len(mesh.indices) = 6 * Len(vertices)
           /\ \A j \in 0..((Len(vertices) \div 4) - 1) :
                [k \in 1..6 |-> mesh.indices[6 * j + k]]
                  = [k \in 1..6 |-> 4 * j + <<0, 1, 2, 2, 3, 0>>[k]]
           /\ msResult.has_transparency
                <=> \E k \in 1..Len(vertices) : vertices[k].transparent
           /\ msMesh.warn = Cardinality(UnresolvedFaces(msModels.models))
           /\ \A k \in 1..Len(vertices) :
                msModels.models[vertices[k].model].model_rot = <<0, 0>>
                  => mesh.positions[k] = TurnedAbout(vertices[k].rotation, vertices[k].corner)

\* A cube whose Up face does not resolve, followed by a slab, has been
\* meshed: the five other faces of the cube and the six of the slab are
\* there, and the first face of the mesh is the Down face of the cube.
C17_Witness ==
  /\ msResult.kind = "Ok"
  /\ Len(msModels.models) = 1
  /\ msModels.models[1].model_rot = <<0, 0>>
  /\ msModels.models[1].elements =
       <<Element(CubeBox, UpUnresolved, RotZ90), Element(SlabBox, AllFaces, RotY90)>>
  /\ Len(msResult.mesh.positions) = 44
  /\ Len(msResult.mesh.indices) = 66
  /\ BlockVertices(msModels.models, 1)[1].face = "Down"
  /\ msMesh.warn = 1
  /\ ~msResult.has_transparency

(***************************************************************************)
(* C16: the first failing block-state ends the scan                        *)
(***************************************************************************)

\* The number of voxels scanned before the voxel p.
ScanRank(size, p) == (p[1] * size[2] + p[2]) * size[3] + p[3]

\* The voxels whose block has no blockstates file in the pack, or a model
\* reference whose file the pack lacks.
FailingVoxels ==
  {p \in Positions(gmGrid.size) :
     LET block == gmGrid.blocks[p]
         name == IF \E i \in 1..Len(block) : block[i] = "["
                   THEN <<block[1]>> ELSE block
         states == ScanStates[name]
         refs == get_block_model(states, block).models
     IN  \/ name \in gmPack.no_states
         \/ \E i \in 1..Len(refs) : refs[i].model \in gmPack.no_model}

\* The failing voxel the scan meets first.
FirstFailing ==
  CHOOSE p \in FailingVoxels :
    \A q \in FailingVoxels : ScanRank(gmGrid.size, p) <= ScanRank(gmGrid.size, q)

\* C16: when the blockstate lookup or the model-chain load fails for a
\* block-state of the grid, get_block_models_for returns that error at
\* once: it never returns BlockModels, not even partial ones, and no voxel
\* after the failing one is processed.
C16_FirstErrorEndsScan ==
  /\ FailingVoxels = {} => gmResult.kind \in {"Pending", "Ok"}
  /\ FailingVoxels # {} =>
       /\ gmResult.kind \in {"Pending", "Err"}
       /\ \A i \in 1..Len(gmLog) :
            ScanRank(gmGrid.size, gmLog[i]) <= ScanRank(gmGrid.size, FirstFailing)
       /\ gmPos <= ScanRank(gmGrid.size, FirstFailing)
       /\ gmResult.kind = "Err" =>
            /\ DOMAIN gmResult = {"kind", "error"}
            /\ gmPos = ScanRank(gmGrid.size, FirstFailing)
            /\ gmLog[Len(gmLog)] = FirstFailing
            /\ ~ENABLED ScanNext

\* A scan has returned the error of its second voxel, with the models of
\* the first in hand and a third voxel never looked at.
C16_Witness ==
  /\ gmResult.kind = "Err"
  /\ Volume(gmGrid.size) = 3
  /\ gmPos = 1
  /\ Len(gmLog) = 2
  /\ DOMAIN gmModels # {}

(***************************************************************************)
(* C19: air                                                                *)
(***************************************************************************)

\* The voxels among the first n of the loops that do not hold air.
SolidVoxels(n) ==
  {p \in Positions(wdGrid.size) :
     ScanRank(wdGrid.size, p) < n /\ wdGrid.blocks[p] # Air}

RECURSIVE ChainFate(_, _, _)
\* What following the reference chain from value v comes to: "literal"
\* when it ends at a path, "missing" when it names a variable the table
\* does not hold, "loop" when it does neither within fuel steps.
ChainFate(t, v, fuel) ==
  IF v \in Literals THEN "literal"
  ELSE IF RefName(v) \notin DOMAIN t THEN "missing"
  ELSE IF fuel = 0 THEN "loop"
  ELSE ChainFate(t, t[RefName(v)], fuel - 1)

\* The entries of the table whose chain has the given fate.
EntriesWithFate(t, fate) ==
  {n \in DOMAIN t : ChainFate(t, t[n], Cardinality(DOMAIN t)) = fate}

\* C15: resolving the same table twice comes to the same, whatever order
\* the hash map hands out its entries in (textures.iter() may yield them in
\* any order, and a different one in each call).  A call that returns
\* returns, for every name, the literal at the end of its chain; a call that
\* panics on a missing variable would do so under every order, that is, the
\* table holds no entry whose chain loops: such an entry, taken first,
\* keeps the call in its loop for ever.
C15_OutcomeIndependentOfIterationOrder ==
  /\ txPc = "done" =>
       txResolved = [n \in DOMAIN txTable |->
                       ChainEnd(txTable, txTable[n], Cardinality(DOMAIN txTable))]
  /\ txPc = "panicked" => EntriesWithFate(txTable, "loop") = {}

(***************************************************************************)
(* C21: the shape of the buffers                                           *)
(***************************************************************************)

RECURSIVE FacesEmitted(_, _, _)
\* The number of faces emitted for the elements handled so far: all
\* elements of the first m models and the first e elements of the next.
FacesEmitted(models, m, e) ==
  IF m = 0 /\ e = 0 THEN 0
  ELSE IF e = 0 THEN FacesEmitted(models, m - 1, Len(models[m].elements))
  ELSE Len(EmittedFaces(models[m + 1], models[m + 1].elements[e]))
         + FacesEmitted(models, m, e - 1)

\* The indices of one quad, relative to its first vertex.
QuadFan == <<0, 1, 2, 2, 3, 0>>

\* The buffers hold F faces: 4 positions, 4 equal normals and 4 texture
\* coordinates per face, and 6 indices per face that name the face's own
\* four vertices as the two triangles of QuadFan.
HoldsFaces(mesh, F) ==
  /\ Len(mesh.positions) = 4 * F
  /\ Len(mesh.normals) = 4 * F
  /\ Len(mesh.uvs) = 4 * F
  /\ Len(mesh.indices) = 6 * F
  /\ \A j \in 0..(F - 1) :
       /\ \A k \in 1..6 : mesh.indices[6 * j + k] = 4 * j + QuadFan[k]
       /\ \A k \in 2..4 : mesh.normals[4 * j + k] = mesh.normals[4 * j + 1]
  /\ \A i \in 1..Len(mesh.indices) : mesh.indices[i] \in 0..(Len(mesh.positions) - 1)

\* C21: every emitted face adds 4 positions, 4 copies of one normal, 4 UVs
\* and the indices base+0, base+1, base+2, base+2, base+3, base+0, base
\* being the vertex count before the face.  So the buffers of
\* create_mesh_for_block, after every element and in the mesh returned,
\* hold 4*F positions, normals and UVs and 6*F indices for the F faces
\* emitted so far, and every index is below the vertex count, also where
\* the elements of several models were concatenated.
C21_FourVerticesSixIndicesPerFace ==
  /\ msPc \in {"loop", "done"} =>
       HoldsFaces(msMesh, FacesEmitted(msModels.models, msM, msE))
  /\ msPc = "done" =>
       /\ msResult.mesh.positions = msMesh.positions
       /\ msResult.mesh.indices = msMesh.indices
       /\ HoldsFaces(msResult.mesh, Len(BlockVertices(msModels.models, 1)) \div 4)

\* A block of two models has been meshed, the first of two elements, one of
\* them with a face that is skipped: 6 + 5 + 6 faces, 68 vertices and 102
\* indices, the last quad on the vertices 64 to 67.
C21_Witness ==
  /\ msPc = "done"
  /\ Len(msModels.models) = 2
  /\ msModels.models[1].elements
       = <<Element(CubeBox, AllFaces, NoRot), Element(CubeBox, UpUnresolved, RotZ90)>>
  /\ Len(msResult.mesh.positions) = 68
  /\ Len(msResult.mesh.indices) = 102
  /\ SubSeq(msResult.mesh.indices, 97, 102) = <<64, 65, 66, 66, 67, 64>>

(***************************************************************************)
(* C22: the rotation of the model                                          *)
(***************************************************************************)

\* The normal of a face of an element that is not rotated.
FaceNormal(f) ==
  CASE f = "Up" -> <<0, 1, 0>>
    [] f = "Down" -> <<0, -1, 0>>
    [] f = "East" -> <<1, 0, 0>>
    [] f = "West" -> <<-1, 0, 0>>
    [] f = "South" -> <<0, 0, 1>>
    [] OTHER -> <<0, 0, -1>>

\* A direction under the rotation of a model: first its X rotation, then
\* its Y rotation.  The code turns by the negated angles of the block-state
\* file.
ModelTurnedDir(model_rot, d) == Turned("Y", -model_rot[2], Turned("X", -model_rot[1], d))

\* A point under the rotation of a model about the centre (8, 8, 8).
ModelTurned(model_rot, v) ==
  LET d == ModelTurnedDir(model_rot, <<v[1] - 8, v[2] - 8, v[3] - 8>>)
  IN  <<d[1] + 8, d[2] + 8, d[3] + 8>>

\* The squared length of a vector.
SquaredLength(v) == v[1] * v[1] + v[2] * v[2] + v[3] * v[3]

RotatedPoint(model, element, v) ==
  LET rots == element_rotations(model, element)
  IN  rot_vert_with_orig(rots.model_rot, <<8, 8, 8>>,
        rot_vert_with_orig(rots.elem_rot, element.rotation.origin, v))

\* The midpoint of the bounding box of an element after both rotations,
\* doubled: the rotations are multiples of a quarter turn, so the rotated
\* box is the box spanned by the rotated corners from and to.
RotatedMidpoint2(model, element) ==
  vec_add(RotatedPoint(model, element, element.from),
          RotatedPoint(model, element, element.to))

RECURSIVE ElementsMeshed(_, _)
\* The model and element of every mesh pushed, in order, from the n-th
\* model on.
ElementsMeshed(models, n) ==
  IF n > Len(models) THEN <<>>
  ELSE [i \in 1..Len(models[n].elements) |->
          [model |-> models[n], element |-> models[n].elements[i]]]
         \o ElementsMeshed(models, n + 1)

\* The stored positions of the i-th mesh plus its offset give back the
\* rotated positions of its element.
StoredPlusOffsetIsRotated(i) ==
  LET of == ElementsMeshed(emModels, 1)[i]
      local == LocalVertices(of.model, of.element)
      stored == emMeshes[i]
  IN  /\ Len(stored.positions2) = Len(local)
      /\ \A k \in 1..Len(local) :
           vec_add(stored.positions2[k], stored.offset2)
             = LET p == RotatedPoint(of.model, of.element, local[k]) IN vec_add(p, p)

\* C23: for every element the stored offset is the midpoint of the
\* element's bounding box after its element rotation and the model rotation
\* have been applied, and the stored positions are the rotated positions
\* minus that offset.
C23_OffsetIsRotatedMidpoint ==
  \A i \in 1..Len(emMeshes) :
    /\ emMeshes[i].offset2
         = RotatedMidpoint2(ElementsMeshed(emModels, 1)[i].model,
                            ElementsMeshed(emModels, 1)[i].element)
    /\ StoredPlusOffsetIsRotated(i)

\* What does hold: the stored positions plus the offset give back the
\* rotated positions, the offset being the midpoint of the box as the
\* element declares it, before any rotation.
StoredAboutUnrotatedMidpoint ==
  \A i \in 1..Len(emMeshes) :
    /\ emMeshes[i].offset2
         = vec_add(ElementsMeshed(emModels, 1)[i].element.from,
                   ElementsMeshed(emModels, 1)[i].element.to)
    /\ StoredPlusOffsetIsRotated(i)

(***************************************************************************)
(* C24: textures with an animation sidecar                                 *)
(***************************************************************************)

\* The textures of the folder, and those of them that have a sidecar.
FolderImages == {fdFolder[i].path : i \in {k \in 1..Len(fdFolder) : fdFolder[k].kind = "Image"}}
FolderSidecars == {fdFolder[i] : i \in {k \in 1..Len(fdFolder) : fdFolder[k].kind = "McMeta"}}

\* C24: a texture that has an animation sidecar is packed like any other:
\* the atlas returned maps every texture of the folder, animated or not,
\* and leaves out only the sidecar files, so that a lookup of an animated
\* texture's name succeeds.
C24_AnimatedTexturePackedAsStatic ==
  /\ fdPc = "built" =>
       /\ DOMAIN fdAtlas.mapping = FolderImages
       /\ \A h \in FolderSidecars : h.path \notin DOMAIN fdAtlas.mapping
  /\ fdDetails # Pending =>
       (<<"minecraft/textures/block/", fdDetails.name[2], ".png">> \in FolderImages
          => fdDetails.outcome.kind = "Ok")

\* What does hold: the atlas maps exactly the textures of the folder that
\* have no sidecar, and a lookup succeeds for these and panics for any
\* other name.
OnlyTexturesWithoutSidecarPacked ==
  LET static == FolderImages \ {h.texture : h \in FolderSidecars}
  IN  /\ fdPc = "built" => DOMAIN fdAtlas.mapping = static
      /\ fdDetails # Pending =>
           (fdDetails.outcome.kind = "Ok"
              <=> <<"minecraft/textures/block/", fdDetails.name[2], ".png">> \in static)

(***************************************************************************)
(* C25, C26: the material of a block                                       *)
(***************************************************************************)

\* The material the i-th block was given.
MaterialOf(i) == mtAssets[mtBlocks[i].material]

\* C25: init_new_blocks gives a block the tint material of its tint
\* whenever its block-state has a tint, whatever the transparency flag of
\* its mesh; a block without tint gets the blended material when the flag
\* is set and the opaque material when it is not.
C25_TintThenTransparencyChoosesMaterial ==
  \A i \in 1..Len(mtBlocks) :
    LET b == mtBlocks[i]
    IN  IF b.tint.some
          THEN /\ b.tint.value \in DOMAIN mtMats.tints
               /\ b.material = mtMats.tints[b.tint.value]
               /\ b.material \notin {mtMats.opaque, mtMats.transparent}
               /\ MaterialOf(i).base_color = b.tint.value
        ELSE IF b.has_transparency
          THEN /\ b.material = mtMats.transparent
               /\ MaterialOf(i).alpha_mode = "Blend"
               /\ MaterialOf(i).base_color = White
        ELSE /\ b.material = mtMats.opaque
             /\ MaterialOf(i).alpha_mode = "Mask(0.5)"
             /\ MaterialOf(i).base_color = White

\* Three blocks have been given a material: a tinted one whose mesh has
\* transparency, and two without tint, one of either flag.
C25_Witness ==
  /\ Len(mtBlocks) = 3
  /\ mtBlocks[1].tint.some /\ mtBlocks[1].has_transparency
  /\ mtBlocks[1].material = 3
  /\ ~mtBlocks[2].tint.some /\ mtBlocks[2].has_transparency
  /\ mtBlocks[2].material = mtMats.transparent
  /\ ~mtBlocks[3].tint.some /\ ~mtBlocks[3].has_transparency
  /\ mtBlocks[3].material = mtMats.opaque

WireNames ==
  {Wire, <<"redstone_wire">>, <<"minecraft:redstone_wire", "_block">>, Stone}

\* Texts of a power property: numbers, and texts that parse::<f32>() rejects.
WirePowerTexts == {<<"0">>, <<"7">>, <<"15">>, <<"abc">>, <<"true">>, <<>>}

\* The property lists between the brackets.
WirePropTexts ==
  {<<"power", "=">> \o t : t \in WirePowerTexts}
    \cup {<<"north", "=", "up", ",", "power", "=">> \o t : t \in WirePowerTexts}
    \cup {<<"north", "=", "up">>}

WireStrings ==
  WireNames \cup {n \o <<"[">> \o p \o <<"]">> : n \in WireNames, p \in WirePropTexts}

WireInit ==
  /\ rsBlock \in WireStrings
  /\ rsStates \in {NotFoundStates,
                    [found |-> TRUE, cases |-> <<>>],
                    [found |-> TRUE,
                     cases |-> <<[when |-> (<<"power">> :> {<<"0">>, <<"7">>}),
                                  apply |-> <<DotModel>>],
                                 [when |-> <<>>, apply |-> <<SideModel>>]>>]}
  /\ rsResult = Pending

WireStart == PaletteInit /\ AppInit /\ WireInit /\ PmIdle /\ TexIdle /\ LaterIdle
WireSpec == WireStart /\ [][ResolveNext]_vars

(***************************************************************************)
(* C27: the tint of a redstone wire without a usable power                 *)
(***************************************************************************)

\* The text of a block-state string before its first '['.
BaseNameOf(block) ==
  LET at == {i \in 1..Len(block) : block[i] = "["}
  IN  IF at = {} THEN block
      ELSE SubSeq(block, 1, (CHOOSE i \in at : \A j \in at : i <= j) - 1)

\* The block-state string carries a power property written as a number.
HasNumericPower(block) ==
  \E i \in 1..(Len(block) - 2) :
    /\ block[i] = "power"
    /\ block[i + 1] = "="
    /\ block[i + 2] \in {ToString(p) : p \in 0..15}

\* (0.3, 0, 0) over TintDenominator
PowerZeroTint == [r |-> (3 * TintDenominator) \div 10, g |-> 0, b |-> 0]

\* C27: get_block_model never panics on these block-states and fails only
\* when the blockstates file is missing; when it succeeds, it gives a tint
\* exactly when the base name is the redstone-wire identifier, and for a
\* redstone wire without power property, or with one that is not a number,
\* that tint is (0.3, 0, 0), the tint of power 0.
C27_MissingOrBadPowerTintsAsZero ==
  rsResult # Pending =>
    /\ rsResult.kind # "Panic"
    /\ rsResult.kind = "Ok" <=> rsStates.found
    /\ rsResult.kind = "Ok" =>
         /\ rsResult.tint.some <=> BaseNameOf(rsBlock) = <<"minecraft:redstone_wire">>
         /\ (BaseNameOf(rsBlock) = <<"minecraft:redstone_wire">> /\ ~HasNumericPower(rsBlock))
              => rsResult.tint = Some(PowerZeroTint)

\* A redstone wire whose power is the text abc got the tint of power 0 and
\* only the model of the case that asks for no power.
C27_Witness ==
  /\ rsBlock = <<"minecraft:redstone_wire", "[", "power", "=", "abc", "]">>
  /\ rsResult.kind = "Ok"
  /\ rsResult.tint = Some([r |-> 675, g |-> 0, b |-> 0])
  /\ rsResult.models = <<SideModel>>

(***************************************************************************)
(* C28: the mesh cache only grows                                          *)
(***************************************************************************)

\* In this step every entry of BlockResources.meshes stays as it is.
CacheEntriesKept ==
  \A idx \in DOMAIN resMeshes :
    idx \in DOMAIN resMeshes' /\ resMeshes'[idx] = resMeshes[idx]

\* In this step every Block that init_new_blocks handles is given the
\* handle stored for its index: the one stored before the step if there was
\* one.
HandledBlocksGetStoredMesh ==
  \A i \in 1..Len(entities) :
    (entities[i].added /\ ~entities'[i].added) =>
      /\ entities'[i].block \in DOMAIN resMeshes'
      /\ entities'[i].mesh = resMeshes'[entities'[i].block]
      /\ entities[i].block \in DOMAIN resMeshes =>
           entities'[i].mesh = resMeshes[entities[i].block]

\* C28: no step removes or replaces an entry of the mesh cache, the step
\* that runs init_block_resources included, and a Block handled in a step
\* is given the handle the cache holds for its index.
C28_MeshCacheNeverShrinks ==
  [][CacheEntriesKept /\ HandledBlocksGetStoredMesh]_vars

\* Two indices are cached, and of two Blocks with the same index the later
\* one was handled after a Block of another index: all in Finished, after
\* init_block_resources ran.
C28_Witness ==
  /\ appState = "Finished"
  /\ Cardinality(DOMAIN resMeshes) = 2
  /\ Len(entities) = 3
  /\ \A i \in 1..3 : ~entities[i].added
  /\ entities[1].block = entities[3].block
  /\ entities[2].block # entities[1].block
  /\ entities[3].mesh = resMeshes[entities[1].block]
  /\ entities[2].mesh = resMeshes[entities[2].block]
  /\ entities[2].mesh > entities[1].mesh

(***************************************************************************)
(* C29: one resolution per distinct block-state string                     *)
(***************************************************************************)

\* The block-state strings that occur in the grid.
GridStrings == {gmGrid.blocks[p] : p \in Positions(gmGrid.size)}

\* The voxel is the first one of the x, y, z order that holds its block.
FirstOccurrence(p) ==
  \A q \in Positions(gmGrid.size) :
    gmGrid.blocks[q] = gmGrid.blocks[p] => ScanRank(gmGrid.size, p) <= ScanRank(gmGrid.size, q)

\* C29: every voxel whose block is resolved is the first of the scan order
\* to hold that block, no block is resolved twice, and a scan that returns
\* Ok has resolved every string of the grid: the BlockModels returned has
\* the strings of the grid as its keys, no other key, and under each the
\* models and tint resolved for it.
C29_OneEntryPerDistinctString ==
  /\ \A i \in 1..Len(gmLog) : FirstOccurrence(gmLog[i])
  /\ \A i, j \in 1..Len(gmLog) :
       i < j => /\ gmGrid.blocks[gmLog[i]] # gmGrid.blocks[gmLog[j]]
                /\ ScanRank(gmGrid.size, gmLog[i]) < ScanRank(gmGrid.size, gmLog[j])
  /\ DOMAIN gmModels \subseteq {gmGrid.blocks[gmLog[i]] : i \in 1..Len(gmLog)}
  /\ gmResult.kind = "Ok" =>
       /\ DOMAIN gmResult.block_models = GridStrings
       /\ Len(gmLog) = Cardinality(GridStrings)
       /\ \A block \in GridStrings :
            gmResult.block_models[block] = block_models(gmPack, block).entry

\* A scan of three voxels has returned two entries: the third voxel holds
\* the block of the first and was passed over.
C29_Witness ==
  /\ gmResult.kind = "Ok"
  /\ gmGrid.size = <<1, 1, 3>>
  /\ gmGrid.blocks[<<0, 0, 0>>] = Wire1
  /\ gmGrid.blocks[<<0, 0, 1>>] = Stone
  /\ gmGrid.blocks[<<0, 0, 2>>] = Wire1
  /\ gmLog = << <<0, 0, 0>>, <<0, 0, 1>> >>
  /\ DOMAIN gmResult.block_models = {Wire1, Stone}

(***************************************************************************)
(* C30: the lookup block_models.0[block] of create_mesh_for_block          *)
(***************************************************************************)

\* The block-state strings the voxels of the world hold.
WorldStrings == {wdGrid.blocks[p] : p \in Positions(wdGrid.size)}

\* C30: every block-state string for which setup calls
\* create_mesh_for_block is a key of BlockModels: the lookup
\* block_models.0[block] never fails.
C30_LookupOfMeshedBlockNeverFails ==
  /\ wdPc # "panic"
  /\ DOMAIN wdMeshMap \subseteq BlockModels(wdGrid)

\* The lookup fails only for a string that the palette lists and no voxel
\* holds, and a setup that got past the loop over the palette has a mesh
\* for the string of every voxel.
LookupFailsOnlyForUnusedPaletteEntry ==
  /\ wdPc = "panic" => blocks_in_palette(wdGrid) \ WorldStrings # {}
  /\ DOMAIN wdMeshMap \subseteq WorldStrings
  /\ wdPc \in {"voxels", "done"} =>
       /\ blocks_in_palette(wdGrid) = WorldStrings
       /\ DOMAIN wdMeshMap = WorldStrings

====
